---- MODULE Spec2Model ----
(***************************************************************************)
(* State-machine model of the s3b_user_service AWS Lambda handlers.        *)
(*                                                                         *)
(* One process hosts one Lambda function (chosen in Init).  The host       *)
(* delivers invocations to it one after another.  An invocation of a       *)
(* "threaded" handler runs run_multithreading_tasks (one Python thread per *)
(* preparation task, a shared queue, a join barrier, a merge of the queue),*)
(* then a sequence of functions wrapped by postgresql_wrapper, each of     *)
(* which opens a cursor, executes its SQL statements and closes the cursor.*)
(* The older handlers connect and execute their statements inside          *)
(* lambda_handler and leave through sys.exit(1) on a failure.              *)
(***************************************************************************)
EXTENDS Integers, Sequences, FiniteSets, TLC

VARIABLES
    handler,                \* the Lambda function deployed in this process
    POSTGRESQL_CONNECTION,  \* module global: "None" or the connection handle
    createCalls,            \* history: create_postgresql_connection calls [ok, failed] in this process
    invocations,            \* number of invocations delivered so far
    event,                  \* event["arguments"]["input"] (or ["arguments"]) of the current invocation
    pc,                     \* position of the main thread
    ip,                     \* index of the current step of the handler's pipeline
    runnerCall,             \* which run_multithreading_tasks call of lambda_handler is active (0 = none)
    threads,                \* task name -> state of its Thread, for the active runner call
    queue,                  \* the Queue shared by the tasks of the active runner call
    results_of_tasks,       \* value returned by the first run_multithreading_tasks call
    input_arguments,        \* the ArgumentMap the handler works with
    aggregated_data,        \* delete/restore handlers: row returned by the aggregating select
    call,                   \* executor -> frame of the wrapped function it is running
    openCursors,            \* cursors opened in this invocation and not closed
    openedCursors,          \* history: cursors opened in this invocation
    inflight,               \* <<executor, statement>> pairs inside cursor.execute right now
    sqlLog,                 \* history: statements whose cursor.execute ended, in order, with outcome
    io,                     \* history: kinds of non-SQL I/O performed in this invocation
    response,               \* what the invocation handed to the host
    store,                  \* the data store: write statements whose effect is committed
    pending,                \* write statements executed in the connection's open transaction
    db,                     \* the data store: the committed rows of its four user tables
    user_id,                \* lambda_handler's local `user_id` (create handlers)
    lastSucceeded           \* history: the delete/restore handler of internal users that
                            \* returned last ("none" before the first)

vars == <<handler, POSTGRESQL_CONNECTION, createCalls, invocations, event, pc, ip,
          runnerCall, threads, queue, results_of_tasks, input_arguments,
          aggregated_data, call, openCursors, openedCursors, inflight, sqlLog,
          io, response, store, pending, db, user_id,
          lastSucceeded>>

(***************************************************************************)
(* Bounds of the model.                                                    *)
(***************************************************************************)
MaxInvocations == 2

(***************************************************************************)
(* The sixteen Lambda functions, by the shape of their lambda_handler.     *)
(***************************************************************************)
ThreadedHandlers ==
    {"get_client", "get_clients", "get_internal_user", "get_internal_users",
     "create_identified_user", "create_unidentified_user", "create_internal_user",
     "requalify_client", "update_identified_user", "update_internal_user",
     "restore_deleted_internal_users"}

DirectHandlers == {"get_roles"}

LegacyHandlers == {"delete_clients", "delete_internal_users", "create_organization", "get_countries"}

Handlers == ThreadedHandlers \cup DirectHandlers \cup LegacyHandlers

(***************************************************************************)
(* Maps (Python dicts) are functions; the empty dict is the empty function.*)
(***************************************************************************)
EmptyMap == << >>

Get(m, k) == IF k \in DOMAIN m THEN m[k] ELSE "null"

Truthy(v) == v \notin {"null", "", "emptylist"}

(***************************************************************************)
(* Inputs.  A value is a token: "null" (None), "uuid" (a string in UUID    *)
(* format), "text" (any other non-empty string), "list" (a non-empty list  *)
(* of ids), "emptylist".  "foo" is a field no handler declares.            *)
(***************************************************************************)
InputFields(h) ==
    CASE h = "get_client" -> {"userId", "foo"}
      [] h = "get_internal_user" -> {"auth0UserId", "foo"}
      [] h \in {"get_clients", "get_internal_users"} ->
             {"rootOrganizationId", "itemsCountPerPage", "currentPageNumber", "foo"}
      [] h = "create_identified_user" -> {"metadata", "userFirstName", "foo"}
      [] h = "create_unidentified_user" -> {"metadata", "foo"}
      [] h = "create_internal_user" -> {"auth0UserId", "userPrimaryEmail", "password", "foo"}
      [] h = "requalify_client" -> {"userId", "metadata", "foo"}
      [] h = "update_identified_user" -> {"userId", "userProfilePhotoUrl", "userFirstName", "foo"}
      [] h = "update_internal_user" -> {"auth0UserId", "userProfilePhotoUrl", "foo"}
      [] h = "restore_deleted_internal_users" -> {"usersIds", "foo"}
      [] h \in {"delete_clients", "delete_internal_users"} -> {"usersIds"}
      [] h = "create_organization" -> {"organizationName", "organizationDescription"}
      [] OTHER -> {}

FieldValues(f) ==
    CASE f \in {"userId", "rootOrganizationId"} -> {"null", "uuid", "text"}
      [] f = "usersIds" -> {"null", "text", "list", "emptylist"}
      [] f = "foo" -> {"text"}
      [] f \in {"itemsCountPerPage", "currentPageNumber"} -> {"null", "1"}
      [] OTHER -> {"null", "text"}

Events(h) ==
    UNION {{e \in [S -> {"null", "uuid", "text", "list", "emptylist", "1"}] :
                \A f \in S : e[f] \in FieldValues(f)} : S \in SUBSET InputFields(h)}

(***************************************************************************)
(* utils.snake_case / utils.camel_case on the field names the model uses.  *)
(***************************************************************************)
snake_case(f) ==
    CASE f = "userId" -> "user_id"
      [] f = "userProfilePhotoUrl" -> "user_profile_photo_url"
      [] f = "userFirstName" -> "user_first_name"
      [] f = "auth0UserId" -> "auth0_user_id"
      [] f = "userPrimaryPhoneNumber" -> "user_primary_phone_number"
      [] f = "userSecondaryPhoneNumber" -> "user_secondary_phone_number"
      [] f = "userNickname" -> "user_nickname"
      [] f = "userType" -> "user_type"
      [] f = "genderId" -> "gender_id"
      [] f = "genderTechnicalName" -> "gender_technical_name"
      [] f = "roleId" -> "role_id"
      [] f = "roleTechnicalName" -> "role_technical_name"
      [] f = "organizationId" -> "organization_id"
      [] f = "organizationName" -> "organization_name"
      [] f = "parentOrganizationId" -> "parent_organization_id"
      [] f = "rootOrganizationName" -> "root_organization_name"
      [] f = "treeOrganizationId" -> "tree_organization_id"
      [] OTHER -> f

camel_case(f) ==
    CASE f = "user_id" -> "userId"
      [] f = "user_profile_photo_url" -> "userProfilePhotoUrl"
      [] f = "auth0_user_id" -> "auth0UserId"
      [] f = "user_nickname" -> "userNickname"
      [] f = "user_type" -> "userType"
      [] f = "total_items_count" -> "totalItemsCount"
      [] f = "gender_id" -> "genderId"
      [] f = "gender_technical_name" -> "genderTechnicalName"
      [] f = "role_id" -> "roleId"
      [] f = "role_technical_name" -> "roleTechnicalName"
      [] f = "organization_id" -> "organizationId"
      [] f = "organization_name" -> "organizationName"
      [] f = "parent_organization_id" -> "parentOrganizationId"
      [] f = "root_organization_name" -> "rootOrganizationName"
      [] f = "tree_organization_id" -> "treeOrganizationId"
      [] f = "country_id" -> "countryId"
      [] f = "country_short_name" -> "countryShortName"
      [] f = "gender_gender_id" -> "genderGenderId"
      [] f = "gender_gender_technical_name" -> "genderGenderTechnicalName"
      [] f = "role_role_id" -> "roleRoleId"
      [] f = "role_role_technical_name" -> "roleRoleTechnicalName"
      [] f = "organization_organization_id" -> "organizationOrganizationId"
      [] f = "organization_organization_name" -> "organizationOrganizationName"
      [] f = "organization_parent_organization_id" -> "organizationParentOrganizationId"
      [] f = "organization_root_organization_name" -> "organizationRootOrganizationName"
      [] f = "organization_tree_organization_id" -> "organizationTreeOrganizationId"
      [] OTHER -> f   \* a name without "_" has nothing to fold

json_dumps(v) == "json:" \o v

(***************************************************************************)
(* check_input_arguments: the validation loop.                             *)
(***************************************************************************)
required_arguments(h) ==
    CASE h = "get_client" -> {"userId"}
      [] h = "get_internal_user" -> {"auth0UserId"}
      [] h \in {"get_clients", "get_internal_users"} ->
             {"rootOrganizationId", "itemsCountPerPage", "currentPageNumber"}
      [] h = "create_identified_user" -> {"metadata"}
      [] h = "create_unidentified_user" -> {"metadata"}
      [] h = "create_internal_user" -> {"userPrimaryEmail", "password"}
      [] h = "requalify_client" -> {"userId", "metadata"}
      [] h = "update_identified_user" -> {"userId"}
      [] h = "update_internal_user" -> {"auth0UserId"}
      [] h = "restore_deleted_internal_users" -> {"usersIds"}
      [] OTHER -> {}

\* Handlers whose loop tests `argument_name not in required_arguments` for every key.
StrictLoopHandlers ==
    {"get_client", "get_clients", "get_internal_user", "get_internal_users",
     "create_unidentified_user", "create_internal_user", "update_internal_user",
     "restore_deleted_internal_users"}

\* Mutant of NullCheckedHandlers: only the loops of the list handlers test
\* `argument_value is None`.
NullCheckedHandlers_ListOnly == {"get_clients", "get_internal_users"}

\* Handlers whose loop tests `argument_value is None` for every key.
NullCheckedHandlers == StrictLoopHandlers \ {"update_internal_user"}

\* The keys the loop passes to uuid.UUID.
UuidCheckedFields(h) ==
    CASE h \in {"get_client", "requalify_client", "update_identified_user"} -> {"userId"}
      [] h \in {"get_clients", "get_internal_users"} -> {"rootOrganizationId"}
      [] OTHER -> {}

\* The `argument_name not in required_arguments` test of one loop iteration.
UnknownFieldTest(h, f) ==
    IF h \in StrictLoopHandlers
    THEN f \notin required_arguments(h)
    ELSE \* `argument_name == "userId" and argument_name not in required_arguments`
         /\ f \in required_arguments(h)
         /\ f \notin required_arguments(h)

\* The error one loop iteration raises for the item (f, v), "none" if it raises nothing.
ArgumentError(h, f, v) ==
    IF UnknownFieldTest(h, f) THEN "UnknownField"
    ELSE IF h \in NullCheckedHandlers /\ v = "null" THEN "NullArgument"
    ELSE IF f \in UuidCheckedFields(h) /\ v = "null" THEN "TypeError"
    ELSE IF f \in UuidCheckedFields(h) /\ v # "uuid" THEN "NotUUID"
    ELSE IF h \in {"create_identified_user", "requalify_client"} /\ f = "metadata" /\ v = "null"
         THEN "NullArgument"
    ELSE IF h = "restore_deleted_internal_users" /\ v \notin {"list", "emptylist"} THEN "WrongType"
    ELSE "none"

\* The loop stops at the first item that fails, in the iteration order of the
\* caller's dict: any failing item can be that one.
LoopErrors(h, e) == {ArgumentError(h, f, e[f]) : f \in DOMAIN e} \ {"none"}

(***************************************************************************)
(* check_input_arguments: the map it puts in the queue.  An entry is       *)
(* <<key of the ArgumentMap, input field, how the field is read>>:         *)
(* "sub" is input_arguments[f], "get" is input_arguments.get(f, None),     *)
(* "json" is json.dumps(input_arguments[f]), "phone" and "phones" are      *)
(* .get(f, None) after the phone numbers were cleaned with re.sub.         *)
(***************************************************************************)
\* A str is the sequence of its characters.
Digits == {"0", "1", "2", "3", "4", "5", "6", "7", "8", "9"}

\* Mutant of re_sub: re.sub with count=1, only the first match is removed.
RECURSIVE re_sub_First(_)
re_sub_First(string) ==
    IF string = << >> THEN << >>
    ELSE IF Head(string) \notin Digits \cup {"+"} THEN Tail(string)
    ELSE <<Head(string)>> \o re_sub_First(Tail(string))

\* re.sub("[^0-9+]", "", string)
RECURSIVE re_sub(_)
re_sub(string) ==
    IF string = << >> THEN << >>
    ELSE IF Head(string) \notin Digits \cup {"+"} THEN re_sub(Tail(string))
    ELSE <<Head(string)>> \o re_sub(Tail(string))

\* `m.get(key, None) is not None`.  An input holds a phone number under the
\* key or does not hold the key: no input of the model gives a phone key null.
is_not_None(m, key) == key \in DOMAIN m

\* `if m.get(key, None) is not None: m[key] = re.sub(...)`, then m.get(key, None)
sanitized_phone(m, key) == IF is_not_None(m, key) THEN re_sub(m[key]) ELSE Get(m, key)

\* `if ...: m[key] = [re.sub(...) for phone_number in m[key]]`, then m.get(key, None)
sanitized_phones(m, key) ==
    IF is_not_None(m, key) THEN [i \in 1..Len(m[key]) |-> re_sub(m[key][i])] ELSE Get(m, key)

ArgumentSpec(h) ==
    CASE h = "get_client" -> {<<"user_id", "userId", "sub">>}
      [] h = "get_internal_user" -> {<<"auth0_user_id", "auth0UserId", "sub">>}
      [] h \in {"get_clients", "get_internal_users"} ->
             {<<"root_organization_id", "rootOrganizationId", "sub">>,
              <<"items_count_per_page", "itemsCountPerPage", "sub">>,
              <<"current_page_number", "currentPageNumber", "sub">>}
      [] h = "create_identified_user" ->
             {<<"user_profile_photo_url", "userProfilePhotoUrl", "get">>,
              <<"identified_user_first_name", "userFirstName", "get">>,
              <<"identified_user_last_name", "userLastName", "get">>,
              <<"identified_user_middle_name", "userMiddleName", "get">>,
              <<"identified_user_primary_email", "userPrimaryEmail", "get">>,
              <<"identified_user_secondary_email", "userSecondaryEmail", "get">>,
              <<"identified_user_primary_phone_number", "userPrimaryPhoneNumber", "phone">>,
              <<"identified_user_secondary_phone_number", "userSecondaryPhoneNumber", "phones">>,
              <<"gender_id", "genderId", "get">>,
              <<"metadata", "metadata", "json">>,
              <<"telegram_username", "telegramUsername", "get">>,
              <<"whatsapp_profile", "whatsappProfile", "get">>,
              <<"whatsapp_username", "whatsappUsername", "get">>,
              <<"instagram_private_username", "instagramPrivateUsername", "get">>}
      [] h = "create_unidentified_user" -> {<<"metadata", "metadata", "json">>}
      [] h = "create_internal_user" ->
             {<<"auth0_user_id", "auth0UserId", "get">>,
              <<"auth0_metadata", "auth0Metadata", "json_get">>,
              <<"user_profile_photo_url", "userProfilePhotoUrl", "get">>,
              <<"internal_user_first_name", "userFirstName", "get">>,
              <<"internal_user_last_name", "userLastName", "get">>,
              <<"internal_user_middle_name", "userMiddleName", "get">>,
              <<"internal_user_primary_email", "userPrimaryEmail", "sub">>,
              <<"internal_user_secondary_email", "userSecondaryEmail", "get">>,
              <<"internal_user_primary_phone_number", "userPrimaryPhoneNumber", "get">>,
              <<"internal_user_secondary_phone_number", "userSecondaryPhoneNumber", "get">>,
              <<"internal_user_position_name", "userPositionName", "get">>,
              <<"gender_id", "genderId", "get">>,
              <<"role_id", "roleId", "get">>,
              <<"organization_id", "organizationId", "get">>,
              <<"password", "password", "sub">>}
      [] h = "requalify_client" ->
             {<<"user_id", "userId", "sub">>,
              <<"user_profile_photo_url", "userProfilePhotoUrl", "get">>,
              <<"identified_user_first_name", "userFirstName", "get">>,
              <<"identified_user_last_name", "userLastName", "get">>,
              <<"identified_user_middle_name", "userMiddleName", "get">>,
              <<"identified_user_primary_email", "userPrimaryEmail", "get">>,
              <<"identified_user_secondary_email", "userSecondaryEmail", "get">>,
              <<"identified_user_primary_phone_number", "userPrimaryPhoneNumber", "get">>,
              <<"identified_user_secondary_phone_number", "userSecondaryPhoneNumber", "get">>,
              <<"gender_id", "genderId", "get">>,
              <<"metadata", "metadata", "json">>,
              <<"telegram_username", "telegramUsername", "get">>,
              <<"whatsapp_profile", "whatsappProfile", "get">>,
              <<"whatsapp_username", "whatsappUsername", "get">>,
              <<"instagram_private_username", "instagramPrivateUsername", "get">>,
              <<"vk_user_id", "vkUserId", "get">>}
      [] h = "restore_deleted_internal_users" -> {<<"users_ids", "usersIds", "sub">>}
      [] OTHER -> {}

\* update_identified_user builds its map from the keys of the input itself.
modified_arguments ==
    {"userFirstName", "userLastName", "userMiddleName", "userPrimaryEmail",
     "userSecondaryEmail", "userPrimaryPhoneNumber", "userSecondaryPhoneNumber"}

formatted_key(f) ==
    IF f \in modified_arguments THEN "identified_" \o snake_case(f) ELSE snake_case(f)

\* Mutant of formatted_arguments: a key for every field the handler knows,
\* null when the field was not supplied.
formatted_arguments_AllKeys(e) ==
    [k \in {formatted_key(f) : f \in InputFields("update_identified_user") \ {"foo"}} |->
        Get(e, CHOOSE f \in InputFields("update_identified_user") : formatted_key(f) = k)]

formatted_arguments(e) ==
    [k \in {formatted_key(f) : f \in DOMAIN e} |->
        e[CHOOSE f \in DOMAIN e : formatted_key(f) = k]]

\* The phone numbers of formatted_arguments cleaned in place.
sanitized_arguments(m) ==
    [k \in DOMAIN m |->
        IF k = "identified_user_primary_phone_number" THEN sanitized_phone(m, k)
        ELSE IF k = "identified_user_secondary_phone_number" THEN sanitized_phones(m, k)
        ELSE m[k]]

\* update_internal_user pops every key and puts it back under its new name.
renamed_arguments(e) == [k \in {camel_case(f) : f \in DOMAIN e} |->
                            e[CHOOSE f \in DOMAIN e : camel_case(f) = k]]

ArgumentValue(e, s) ==
    CASE s[3] = "sub" -> e[s[2]]
      [] s[3] = "get" -> Get(e, s[2])
      [] s[3] = "json" -> json_dumps(e[s[2]])
      [] s[3] = "json_get" -> json_dumps(Get(e, s[2]))
      [] s[3] = "phone" -> sanitized_phone(e, s[2])
      [] s[3] = "phones" -> sanitized_phones(e, s[2])

\* The subscripts input_arguments["..."] that raise KeyError on this input.
MissingSubscripts(h, e) ==
    {s[2] : s \in {t \in ArgumentSpec(h) : t[3] \in {"sub", "json"} /\ t[2] \notin DOMAIN e}}

ArgumentMap(h, e) ==
    CASE h = "update_identified_user" -> sanitized_arguments(formatted_arguments(e))
      [] h = "update_internal_user" -> renamed_arguments(e)
      [] OTHER ->
           [k \in {s[1] : s \in ArgumentSpec(h)} |->
               ArgumentValue(e, CHOOSE s \in ArgumentSpec(h) : s[1] = k)]

\* Every way check_input_arguments can end on input e: it raises (ok = FALSE)
\* or it puts {"input_arguments": args} in the queue.
Raised(x) == [ok |-> FALSE, error |-> x, args |-> EmptyMap]

CheckInputOutcomes(h, e) ==
    IF LoopErrors(h, e) # {} THEN {Raised(x) : x \in LoopErrors(h, e)}
    ELSE IF MissingSubscripts(h, e) # {} THEN {Raised("KeyError")}
    ELSE {[ok |-> TRUE, error |-> "none", args |-> ArgumentMap(h, e)]}
         \cup (IF h = "update_internal_user" /\ DOMAIN e # {}
               THEN \* the dict is changed while the loop iterates over it
                    {Raised("RuntimeError")}
               ELSE {})

(***************************************************************************)
(* run_multithreading_tasks.                                               *)
(***************************************************************************)
\* The tasks lambda_handler passes to its first run_multithreading_tasks call.
PreparationTasks(h) ==
    IF h = "create_internal_user"
    THEN {"check_input_arguments", "reuse_or_recreate_postgresql_connection",
          "get_access_token_from_auth0"}
    ELSE {"check_input_arguments", "reuse_or_recreate_postgresql_connection"}

\* The tasks restore_deleted_internal_users passes to its second call.
UpdateTasks == {"update_internal_users", "update_users"}

\* Mutant of Joined: the runner does not wait for its threads.
Joined_NoWait(th) == TRUE

\* `for thread in threads: thread.join()`: every thread has ended, by
\* returning or by an exception that ended the thread.
Joined(th) == \A t \in DOMAIN th : th[t] \in {"done", "raised"}

\* Mutant of Merge: `results = queue.get()`, which forgets the earlier items.
Merge_LastOnly(results, item) == item

\* {**results, **item}
Merge(results, item) ==
    [k \in DOMAIN results \cup DOMAIN item |->
        IF k \in DOMAIN item THEN item[k] ELSE results[k]]

\* `while not queue.empty(): results = {**results, **queue.get()}`
RECURSIVE Drain(_, _)
Drain(results, q) ==
    IF q = << >> THEN results ELSE Drain(Merge(results, Head(q)), Tail(q))

\* Mutant of NeedsCreate: the connection is created on every invocation.
NeedsCreate_Always(connection) == TRUE

\* `if not POSTGRESQL_CONNECTION:`
NeedsCreate(connection) == connection = "None"

(***************************************************************************)
(* The sequential part of lambda_handler: the wrapped functions it calls,  *)
(* in order, each with the statements it passes to cursor.execute.         *)
(***************************************************************************)
\* A step of kind "http" is a request to the identity provider made by the
\* main thread.  No accepted input produces one: create_internal_user rejects
\* auth0UserId, so auth0_user_id is always None, and update_internal_user never
\* gets past its subscript of input_arguments (see UnpackResults).
Call(fn, stmts) == [kind |-> "call", fn |-> fn, stmts |-> stmts]
Http(fn) == [kind |-> "http", fn |-> fn, stmts |-> << >>]
Parallel == [kind |-> "parallel", fn |-> "run_multithreading_tasks", stmts |-> << >>]

SequentialPipeline(h, args) ==
    CASE h = "get_client" -> <<Call("get_client_data", <<"select_client">>)>>
      [] h = "get_clients" -> <<Call("get_clients_data", <<"select_clients">>)>>
      [] h = "get_internal_user" -> <<Call("get_internal_user_data", <<"select_internal_user">>)>>
      [] h = "get_internal_users" -> <<Call("get_internal_users_data", <<"select_internal_users">>)>>
      [] h = "get_roles" -> <<Call("get_roles_data", <<"select_roles">>)>>
      [] h = "create_identified_user" ->
             <<Call("create_identified_user", <<"insert_identified_users", "insert_users">>),
               Call("get_identified_user_data", <<"select_identified_user">>)>>
      [] h = "create_unidentified_user" ->
             <<Call("create_unidentified_user", <<"insert_unidentified_users", "insert_users">>),
               Call("get_unidentified_user_data", <<"select_unidentified_user">>)>>
      [] h = "create_internal_user" ->
             (IF Truthy(Get(args, "auth0_user_id")) THEN <<Http("create_user_in_auth0")>> ELSE << >>)
             \o <<Call("create_internal_user", <<"insert_internal_users", "insert_users">>),
                  Call("get_internal_user_data", <<"select_internal_user">>)>>
      [] h = "requalify_client" ->
             <<Call("requalify_client",
                    <<"insert_identified_users", "update_users_type", "update_unidentified_users_deleted">>),
               Call("get_client_data", <<"select_client">>)>>
      [] h = "update_identified_user" ->
             (IF Truthy(Get(args, "user_profile_photo_url"))
              THEN <<Call("update_user_profile_photo_url", <<"update_users_photo">>)>> ELSE << >>)
             \o <<Call("update_identified_user", <<"update_identified_users">>),
                  Call("get_identified_user_data", <<"select_identified_user">>)>>
      [] h = "update_internal_user" ->
             (IF Truthy(Get(args, "password"))
              THEN <<Http("get_access_token_from_auth0"), Http("change_user_password_in_auth0")>>
              ELSE << >>)
             \o (IF Truthy(Get(args, "user_profile_photo_url"))
                 THEN <<Call("update_user_profile_photo_url", <<"update_users_photo">>)>> ELSE << >>)
             \o <<Call("update_internal_user", <<"update_internal_users">>),
                  Call("get_internal_user_data", <<"select_internal_user">>)>>
      [] h = "delete_clients" ->
             <<Call("lambda_handler",
                    <<"select_aggregated", "update_identified_users_deleted",
                      "update_unidentified_users_deleted", "update_users_deleted">>)>>
      [] h = "delete_internal_users" ->
             <<Call("lambda_handler",
                    <<"select_aggregated", "update_internal_users_deleted", "update_users_deleted">>)>>
      [] h = "create_organization" -> <<Call("lambda_handler", <<"insert_organizations">>)>>
      [] h = "get_countries" -> <<Call("lambda_handler", <<"select_countries">>)>>

\* restore_deleted_internal_users: the select, then update_internal_users and
\* update_users handed to a second run_multithreading_tasks call.
RestorePipeline == <<Call("get_aggregated_data", <<"select_aggregated">>), Parallel>>

\* Mutant of Pipeline: delete_internal_users also hands its two updates to
\* run_multithreading_tasks.
Pipeline_ParallelDelete(h, args) ==
    IF h \in {"restore_deleted_internal_users", "delete_internal_users"}
    THEN RestorePipeline
    ELSE SequentialPipeline(h, args)

Pipeline(h, args) ==
    IF h = "restore_deleted_internal_users"
    THEN RestorePipeline
    ELSE SequentialPipeline(h, args)

\* The statements of the functions restore_deleted_internal_users runs as threads.
TaskStatements(t) ==
    IF t = "update_internal_users" THEN <<"update_internal_users_restored">>
    ELSE <<"update_users_restored">>

WriteStatements ==
    {"insert_identified_users", "insert_unidentified_users", "insert_internal_users",
     "insert_users", "insert_organizations", "update_users_type", "update_users_photo",
     "update_identified_users", "update_internal_users",
     "update_identified_users_deleted", "update_unidentified_users_deleted",
     "update_internal_users_deleted", "update_users_deleted",
     "update_internal_users_restored", "update_users_restored"}

\* Columns of identified_users / internal_users an UPDATE can name.
identified_users_columns ==
    {"identified_user_first_name", "identified_user_last_name", "identified_user_middle_name",
     "identified_user_primary_email", "identified_user_secondary_email",
     "identified_user_primary_phone_number", "identified_user_secondary_phone_number",
     "gender_id", "metadata", "telegram_username", "whatsapp_profile", "whatsapp_username",
     "instagram_private_username", "vk_user_id"}

internal_users_columns ==
    {"auth0_user_id", "auth0_metadata", "internal_user_first_name", "internal_user_last_name",
     "internal_user_middle_name", "internal_user_primary_email", "internal_user_secondary_email",
     "internal_user_primary_phone_number", "internal_user_secondary_phone_number",
     "internal_user_position_name", "gender_id", "role_id", "organization_id"}

\* `sql_statement_arguments` of the dynamically generated UPDATE.
sql_statement_arguments(h, args) ==
    IF h = "update_identified_user"
    THEN DOMAIN args \ {"user_id", "user_profile_photo_url"}
    ELSE DOMAIN args \ {"auth0_user_id", "password", "user_profile_photo_url"}

\* The condition around one cursor.execute: "run" the statement, "skip" it,
\* or "raise" while evaluating the condition.
StatementGuard(h, stmt, args, agg) ==
    CASE stmt \in {"update_identified_users", "update_internal_users"} ->
             IF sql_statement_arguments(h, args) # {} THEN "run" ELSE "skip"
      [] stmt = "update_internal_users_restored" ->
             IF Truthy(Get(agg, "internal_users_ids")) THEN "run" ELSE "skip"
      [] stmt = "update_users_restored" ->
             IF Truthy(Get(args, "users_ids")) THEN "run" ELSE "skip"
      [] stmt = "update_internal_users_deleted" ->
             \* len(internal_users_ids) != 0
             IF Get(agg, "internal_users_ids") = "null" THEN "raise"
             ELSE IF Get(agg, "internal_users_ids") = "emptylist" THEN "skip" ELSE "run"
      [] stmt \in {"update_identified_users_deleted"} /\ h = "delete_clients" ->
             IF Get(agg, "identified_users_ids") = "null" THEN "skip" ELSE "run"
      [] stmt \in {"update_unidentified_users_deleted"} /\ h = "delete_clients" ->
             IF Get(agg, "unidentified_users_ids") = "null" THEN "skip" ELSE "run"
      [] OTHER -> "run"

\* What the data store can answer to one cursor.execute: TRUE (executed) or
\* FALSE (an error).  A generated UPDATE naming a column its table does not
\* have is always an error.
StatementOutcomes(h, stmt, args, agg) ==
    IF \/ stmt = "update_identified_users"
          /\ ~(sql_statement_arguments(h, args) \subseteq identified_users_columns)
       \/ \* delete_clients formats the ids into `in ({0})`: an empty list gives `in ()`
          /\ h = "delete_clients"
          /\ \/ stmt = "update_identified_users_deleted" /\ Get(agg, "identified_users_ids") = "emptylist"
             \/ stmt = "update_unidentified_users_deleted" /\ Get(agg, "unidentified_users_ids") = "emptylist"
       \/ stmt = "update_internal_users"
          /\ ~(sql_statement_arguments(h, args) \subseteq internal_users_columns)
       \/ \* the select list of create_unidentified_user has `user_profile_photo_url:text`
          stmt = "select_unidentified_user"
    THEN {FALSE}
    ELSE {TRUE, FALSE}

\* The rows the aggregating select of the delete/restore handlers can return.
AggregatedRows(h) ==
    IF h = "delete_clients"
    THEN [{"identified_users_ids", "unidentified_users_ids"} -> {"null", "emptylist", "list"}]
    ELSE [{"internal_users_ids"} -> {"null", "emptylist", "list"}]

\* The handlers that call postgresql_connection.commit() themselves.
ExplicitCommit(h) == h \in LegacyHandlers

\* Mutant of CommitsAfter: one commit(), after the last statement.
CommitsAfter_LastOnly(stmts, sp) == sp = Len(stmts)

\* Whether commit() follows the cursor.execute of statement number sp: these
\* handlers call it after every statement.
CommitsAfter(stmts, sp) == sp \in 1..Len(stmts)

\* The other handlers never call commit(): their writes persist because the
\* connection made by databases.create_postgresql_connection commits each
\* statement by itself.
AutoCommit(h) == ~ExplicitCommit(h)

\* How a failed statement leaves lambda_handler: the older handlers call
\* sys.exit(1), the others let the exception propagate to the host.
FailureExit(h) == IF h \in LegacyHandlers THEN "exited" ELSE "failed"

(***************************************************************************)
(* Query results and their reshaping (analyze_and_format_*_data).  A row   *)
(* is the sequence of its <<column, value>> pairs in select-list order; a  *)
(* query result is a sequence of rows (fetchone: at most one row, no row   *)
(* is None).                                                               *)
(***************************************************************************)
MaxRows == 2

ClientReshapers ==
    {"get_client", "create_identified_user", "update_identified_user", "requalify_client"}

InternalUserReshapers ==
    {"create_internal_user", "update_internal_user", "get_internal_user"}

FlatReshapers == {"create_unidentified_user", "create_organization"}

ListReshapers == {"get_clients", "get_internal_users"}

FlatListReshapers == {"get_roles", "get_countries"}

\* Columns of the clients / internal users selects (some of each group).
ClientColumns == <<"user_id", "user_nickname", "gender_id", "gender_technical_name">>

InternalUserColumns ==
    <<"auth0_user_id", "user_id", "gender_id", "gender_technical_name", "role_id",
      "role_technical_name", "organization_id", "organization_name",
      "parent_organization_id", "root_organization_name", "tree_organization_id">>

Columns(h) ==
    IF h = "get_clients" THEN <<"total_items_count">> \o ClientColumns
    ELSE IF h = "get_internal_users" THEN <<"total_items_count">> \o InternalUserColumns
    ELSE IF h \in {"get_client", "requalify_client"} THEN ClientColumns \o <<"user_type">>
    ELSE IF h \in ClientReshapers THEN ClientColumns
    ELSE IF h \in InternalUserReshapers THEN InternalUserColumns
    ELSE IF h = "create_unidentified_user" THEN <<"user_id", "user_nickname", "metadata">>
    ELSE IF h = "create_organization" THEN <<"organization_id", "organization_name">>
    ELSE IF h = "get_roles" THEN <<"role_id", "role_technical_name">>
    ELSE IF h = "get_countries" THEN <<"country_id", "country_short_name">>
    ELSE << >>

\* Mutant of startswith: the key is compared with the names of the columns
\* of the select instead of with the prefix.
startswith_Exact(key, prefix) ==
    CASE prefix = "gender_" -> key \in {"gender_id", "gender_technical_name"}
      [] prefix = "role_" -> key \in {"role_id", "role_technical_name"}
      [] prefix = "organization_" -> key \in {"organization_id", "organization_name"}

\* key.startswith(prefix), on the columns above and on the columns a
\* flattened entity has.
startswith(key, prefix) ==
    CASE prefix = "gender_" ->
             key \in {"gender_id", "gender_technical_name",
                      "gender_gender_id", "gender_gender_technical_name"}
      [] prefix = "role_" ->
             key \in {"role_id", "role_technical_name",
                      "role_role_id", "role_role_technical_name"}
      [] prefix = "organization_" ->
             key \in {"organization_id", "organization_name",
                      "organization_organization_id", "organization_organization_name",
                      "organization_parent_organization_id",
                      "organization_root_organization_name",
                      "organization_tree_organization_id"}

\* `"organization_" in key`, on the columns above.
contains_organization(key) ==
    key \in {"organization_id", "organization_name", "parent_organization_id",
             "root_organization_name", "tree_organization_id",
             "organization_organization_id", "organization_organization_name",
             "organization_parent_organization_id", "organization_root_organization_name",
             "organization_tree_organization_id"}

\* The sub-objects a reshaper adds to the entity.
Groups(h) ==
    IF h \in ClientReshapers \cup {"get_clients"} THEN {"gender"}
    ELSE IF h \in InternalUserReshapers \cup {"get_internal_users"}
         THEN {"gender", "role", "organization"}
    ELSE {}

\* Mutant of GroupOf: every column goes to the top-level object.
GroupOf_AlwaysTop(h, key) == "top"

\* The if/elif chain of the loop over record.items(): the dict the column
\* goes to, or "break".
GroupOf(h, key) ==
    IF Groups(h) = {} THEN "top"
    ELSE IF startswith(key, "gender_") THEN "gender"
    ELSE IF "role" \in Groups(h) /\ startswith(key, "role_") THEN "role"
    ELSE IF h \in {"create_internal_user", "update_internal_user"} /\ contains_organization(key)
         THEN "organization"
    ELSE IF h \in {"get_internal_user", "get_internal_users"} /\ startswith(key, "organization_")
         THEN "organization"
    ELSE IF h \in ListReshapers /\ key = "total_number_of_users" THEN "break"
    ELSE "top"

\* dict[k] = v
Put(m, k, v) == [x \in DOMAIN m \cup {k} |-> IF x = k THEN v ELSE m[x]]

\* The dicts before the loop: `client, gender = {}, {}`.
EmptyEntity(h) == [top |-> EmptyMap, groups |-> [g \in Groups(h) |-> EmptyMap]]

\* `for key, value in record.items(): ...`
RECURSIVE ReshapeLoop(_, _, _)
ReshapeLoop(h, row, acc) ==
    IF row = << >> THEN acc
    ELSE LET key == Head(row)[1]
             value == Head(row)[2]
             g == GroupOf(h, key)
         IN  IF g = "break" THEN acc
             ELSE IF g = "top"
                  THEN ReshapeLoop(h, Tail(row),
                                   [acc EXCEPT !.top = Put(@, camel_case(key), value)])
                  ELSE ReshapeLoop(h, Tail(row),
                                   [acc EXCEPT !.groups[g] = Put(@, camel_case(key), value)])

\* One record reshaped, its sub-objects attached (`client["gender"] = gender`).
ReshapeRow(h, row) == ReshapeLoop(h, row, EmptyEntity(h))

\* Mutant of EmptyObject: the sub-objects are attached outside the
\* `is not None` test.
EmptyObject_WithSubObjects ==
    [top |-> EmptyMap, groups |-> [g \in {"gender"} |-> EmptyMap]]

\* The object returned when fetchone found no row: `internal_user = {}`.
EmptyObject == [top |-> EmptyMap, groups |-> EmptyMap]

HasColumn(row, key) == \E i \in 1..Len(row) : row[i][1] = key

ColumnValue(row, key) == row[CHOOSE i \in 1..Len(row) : row[i][1] = key][2]

\* The key the list reshaper reads the total from: record["..."].
TotalKey(h) == IF h = "get_clients" THEN "total_number_of_users" ELSE "total_items_count"

\* Mutant of TotalLookupFails: the total is read from records[0] before the
\* loop, which raises when there is no record.
TotalLookupFails_Unguarded(h, rows) ==
    rows = << >> \/ ~HasColumn(rows[1], TotalKey(h))

\* `if index == 0: total_items_count = record[...]` raises KeyError: only
\* inside the loop, so only when there is a first record.
TotalLookupFails(h, rows) ==
    rows # << >> /\ ~HasColumn(rows[1], TotalKey(h))

FormatFailed(x) == [ok |-> FALSE, error |-> x, body |-> "none"]

Formatted(b) == [ok |-> TRUE, error |-> "none", body |-> b]

\* analyze_and_format_*_data and the value lambda_handler returns, for the
\* query result `rows`.
FormatOutcome(h, rows) ==
    IF h \in ListReshapers
    THEN IF TotalLookupFails(h, rows)
         THEN FormatFailed("KeyError")
         ELSE Formatted([items |-> [i \in 1..Len(rows) |-> ReshapeRow(h, rows[i])],
                         totalItemsCount |-> IF rows = << >> THEN 0
                                             ELSE ColumnValue(rows[1], TotalKey(h))])
    ELSE IF h \in FlatListReshapers
    THEN Formatted([items |-> [i \in 1..Len(rows) |-> ReshapeRow(h, rows[i])]])
    ELSE IF h \in ClientReshapers \cup InternalUserReshapers \cup FlatReshapers
    THEN Formatted(IF rows = << >> THEN EmptyObject ELSE ReshapeRow(h, rows[1]))
    ELSE \* the delete and restore handlers return the ids they were given
         Formatted("users_ids")

\* The statement whose result lambda_handler reshapes.
ResponseStatement(h) ==
    CASE h \in {"get_client", "requalify_client"} -> "select_client"
      [] h = "get_clients" -> "select_clients"
      [] h \in InternalUserReshapers -> "select_internal_user"
      [] h = "get_internal_users" -> "select_internal_users"
      [] h \in {"create_identified_user", "update_identified_user"} -> "select_identified_user"
      [] h = "create_unidentified_user" -> "select_unidentified_user"
      [] h = "create_organization" -> "insert_organizations"
      [] h = "get_roles" -> "select_roles"
      [] h = "get_countries" -> "select_countries"
      [] OTHER -> "none"

\* A row of the select of handler h: the columns of the outer-joined tables
\* in `nulls` are null, count(*) over() is `total`.
MakeRow(h, nulls, total) ==
    [i \in 1..Len(Columns(h)) |->
        LET c == Columns(h)[i]
        IN  <<c, IF c = "total_items_count" THEN total
                 ELSE IF c = "user_type" THEN "identified_user"
                 ELSE IF \/ "genders" \in nulls /\ startswith(c, "gender_")
                         \/ "roles" \in nulls /\ startswith(c, "role_")
                         \/ "organizations" \in nulls /\ contains_organization(c)
                      THEN "null" ELSE "value">>]

JoinedTables(h) ==
    IF "role" \in Groups(h) THEN {"genders", "roles", "organizations"}
    ELSE IF "gender" \in Groups(h) THEN {"genders"}
    ELSE {}

\* Sequences of n rows drawn from the set R.
RowSeqs(R, n) == [1..n -> R]

\* Every result the select of handler h can return (up to MaxRows rows); the
\* window aggregate is the same on every row and at least the number of rows.
AllQueryResults(h) ==
    IF h \in ListReshapers \cup FlatListReshapers
    THEN UNION {UNION {RowSeqs({MakeRow(h, ns, t) : ns \in SUBSET JoinedTables(h)}, n) :
                          t \in (IF n = 0 THEN {0} ELSE n..MaxRows)} : n \in 0..MaxRows}
    ELSE UNION {RowSeqs({MakeRow(h, ns, 1) : ns \in SUBSET JoinedTables(h)}, n) : n \in 0..1}

\* The results the invocations of the handler model draw from: rows without
\* nulls.
QueryResults(h) ==
    {rows \in AllQueryResults(h) :
        \A i \in 1..Len(rows) : rows[i] = MakeRow(h, {}, Len(rows))}

(***************************************************************************)
(* State.                                                                  *)
(***************************************************************************)
Executors == {"main"} \cup UpdateTasks

NoCall ==
    [fn |-> "none", stmts |-> << >>, sp |-> 0, phase |-> "none", args |-> EmptyMap,
     result |-> "None"]

\* A number of the event is written as its numeral.
Numerals == <<"0", "1", "2", "3", "4", "5", "6", "7", "8", "9", "10", "11">>

IntOf(v) == (CHOOSE n \in 1..Len(Numerals) : Numerals[n] = v) - 1

(***************************************************************************)
(* The rows of the data store.  The tables users, identified_users,        *)
(* unidentified_users and internal_users are maps from a row's id to the   *)
(* row; of a row only its references to other rows and its                 *)
(* entry_deleted_date_time ("null" or "now") are kept.                     *)
(***************************************************************************)
EmptyDatabase ==
    [users |-> EmptyMap, identified_users |-> EmptyMap,
     unidentified_users |-> EmptyMap, internal_users |-> EmptyMap]

\* A row of users as an INSERT leaves it.
UsersRow(identified, unidentified, internal) ==
    [identified_user_id |-> identified, unidentified_user_id |-> unidentified,
     internal_user_id |-> internal, entry_deleted_date_time |-> "null"]

\* A row of identified_users, unidentified_users or internal_users as an
\* INSERT leaves it.
ParentRow == [entry_deleted_date_time |-> "null"]

\* The users an id of an event can name.  A userId in UUID format ("uuid")
\* names an unidentified client; a non-empty usersIds ("list") names user_1
\* (an internal user), user_2 (an identified client) and user_3 (an
\* unidentified client); user_4 is a second internal user.  Any other
\* value names no row.
KnownUsers == {"uuid", "user_1", "user_2", "user_3", "user_4"}

ParentTable(u) ==
    IF u \in {"user_1", "user_4"} THEN "internal_users"
    ELSE IF u = "user_2" THEN "identified_users"
    ELSE "unidentified_users"

ParentId(u) == (ParentTable(u) \o "_of_") \o u

\* The data store in which exactly the users in S (and the rows they
\* reference) exist, none of them deleted.
DatabaseOf(S) ==
    LET Parents(t) == {ParentId(u) : u \in {v \in S : ParentTable(v) = t}}
        Reference(u, t) == IF ParentTable(u) = t THEN ParentId(u) ELSE "null"
    IN  [users |-> [u \in S |-> UsersRow(Reference(u, "identified_users"),
                                         Reference(u, "unidentified_users"),
                                         Reference(u, "internal_users"))],
         identified_users |-> [i \in Parents("identified_users") |-> ParentRow],
         unidentified_users |-> [i \in Parents("unidentified_users") |-> ParentRow],
         internal_users |-> [i \in Parents("internal_users") |-> ParentRow]]

\* The data stores an invocation of handler h can find.
InitialDatabases(h) ==
    IF h = "requalify_client" THEN {DatabaseOf({}), DatabaseOf({"uuid"})}
    ELSE IF h \in {"delete_clients", "delete_internal_users", "restore_deleted_internal_users"}
    THEN {DatabaseOf(S) : S \in SUBSET {"user_1", "user_2", "user_3"}}
    ELSE IF h = "get_internal_users" THEN {DatabaseOf(S) : S \in SUBSET {"user_1", "user_4"}}
    ELSE {EmptyDatabase}

\* The rows of users that `user_id in (...)` matches for the usersIds v.
ListedUsers(v) == IF v = "list" THEN {"user_1", "user_2", "user_3"} ELSE {}

\* The ids in column `column` of the rows of users that usersIds v matches:
\* array_remove(array_agg(distinct column), null).
Referenced(d, v, column) ==
    {d.users[u][column] : u \in ListedUsers(v) \cap DOMAIN d.users} \ {"null"}

\* The row the aggregating select returns: array_agg over no row is null.
AggregatedRow(h, d, v) ==
    LET Aggregated(column) ==
            IF ListedUsers(v) \cap DOMAIN d.users = {} THEN "null"
            ELSE IF Referenced(d, v, column) = {} THEN "emptylist" ELSE "list"
    IN  IF h = "delete_clients"
        THEN [k \in {"identified_users_ids", "unidentified_users_ids"} |->
                 IF k = "identified_users_ids" THEN Aggregated("identified_user_id")
                 ELSE Aggregated("unidentified_user_id")]
        ELSE [k \in {"internal_users_ids"} |-> Aggregated("internal_user_id")]

\* The id the store generates for a row inserted into `table`: one that no
\* row of the table has.
GeneratedId(table, rows) == (table \o "_") \o Numerals[Cardinality(DOMAIN rows) + 2]

\* `set entry_deleted_date_time = value where id in ids`
Mark(rows, ids, value) ==
    [r \in DOMAIN rows |->
        IF r \in ids THEN [rows[r] EXCEPT !.entry_deleted_date_time = value] ELSE rows[r]]

\* The handlers whose insert into users names the reference to each table.
UsersInsertReference(h, table) ==
    \/ h = "create_identified_user" /\ table = "identified_users"
    \/ h = "create_unidentified_user" /\ table = "unidentified_users"
    \/ h = "create_internal_user" /\ table = "internal_users"

\* The data store after handler h executed statement stmt with the
\* sql_arguments args.  The ids a delete or restore handler formats into an
\* `in (...)` are the ones its aggregating select returned.
Execute(h, stmt, args, d) ==
    LET Ref(table, key) == IF UsersInsertReference(h, table) THEN Get(args, key) ELSE "null"
        users_ids == Get(args, "users_ids")
    IN  IF stmt = "insert_identified_users"
        THEN [d EXCEPT !.identified_users = Put(@, GeneratedId("identified_users", @), ParentRow)]
        ELSE IF stmt = "insert_unidentified_users"
        THEN [d EXCEPT !.unidentified_users = Put(@, GeneratedId("unidentified_users", @), ParentRow)]
        ELSE IF stmt = "insert_internal_users"
        THEN [d EXCEPT !.internal_users = Put(@, GeneratedId("internal_users", @), ParentRow)]
        ELSE IF stmt = "insert_users"
        THEN [d EXCEPT !.users = Put(@, GeneratedId("users", @),
                                     UsersRow(Ref("identified_users", "identified_user_id"),
                                              Ref("unidentified_users", "unidentified_user_id"),
                                              Ref("internal_users", "internal_user_id")))]
        ELSE IF stmt = "update_users_type"
        THEN IF Get(args, "user_id") \in DOMAIN d.users
             THEN [d EXCEPT !.users[args["user_id"]] =
                      [@ EXCEPT !.identified_user_id = Get(args, "identified_user_id"),
                                !.unidentified_user_id = "null"]]
             ELSE d
        ELSE IF stmt = "update_unidentified_users_deleted"
        THEN [d EXCEPT !.unidentified_users =
                 Mark(@, IF h = "requalify_client" THEN {Get(args, "unidentified_user_id")}
                         ELSE Referenced(d, users_ids, "unidentified_user_id"), "now")]
        ELSE IF stmt = "update_identified_users_deleted"
        THEN [d EXCEPT !.identified_users =
                 Mark(@, Referenced(d, users_ids, "identified_user_id"), "now")]
        ELSE IF stmt = "update_internal_users_deleted"
        THEN [d EXCEPT !.internal_users =
                 Mark(@, Referenced(d, users_ids, "internal_user_id"), "now")]
        ELSE IF stmt = "update_users_deleted"
        THEN [d EXCEPT !.users = Mark(@, ListedUsers(users_ids), "now")]
        ELSE IF stmt = "update_internal_users_restored"
        THEN [d EXCEPT !.internal_users =
                 Mark(@, Referenced(d, users_ids, "internal_user_id"), "null")]
        ELSE IF stmt = "update_users_restored"
        THEN [d EXCEPT !.users = Mark(@, ListedUsers(users_ids), "null")]
        ELSE d

\* The statements of one transaction, executed one after the other.
RECURSIVE ExecuteAll(_, _, _, _)
ExecuteAll(h, stmts, args, d) ==
    IF stmts = {} THEN d
    ELSE LET stmt == CHOOSE s \in stmts : TRUE
         IN  ExecuteAll(h, stmts \ {stmt}, args, Execute(h, stmt, args, d))

\* What cursor.fetchone() gives after a statement with a `returning` clause:
\* the column's value, "None" when the statement returned no row.
Returned(stmt, args, d) ==
    IF stmt = "insert_identified_users" THEN GeneratedId("identified_users", d.identified_users)
    ELSE IF stmt = "insert_unidentified_users"
    THEN GeneratedId("unidentified_users", d.unidentified_users)
    ELSE IF stmt = "insert_internal_users" THEN GeneratedId("internal_users", d.internal_users)
    ELSE IF stmt = "insert_users" THEN GeneratedId("users", d.users)
    ELSE IF stmt = "update_users_type" /\ Get(args, "user_id") \in DOMAIN d.users
    THEN d.users[args["user_id"]].unidentified_user_id
    ELSE "None"

\* Mutant of ReturnedKey: the returned id is stored under its key only by
\* requalify_client.
ReturnedKey_RequalifyOnly(stmt) ==
    IF stmt = "update_users_type" THEN "unidentified_user_id" ELSE "none"

\* Mutant of user_type: every client is reported as unidentified.
user_type_Unidentified(row) == "unidentified_user"

\* `case when users.identified_user_id is not null and
\* users.unidentified_user_id is null then 'identified_user' else
\* 'unidentified_user' end as user_type`
user_type(row) ==
    IF row.identified_user_id # "null" /\ row.unidentified_user_id = "null"
    THEN "identified_user" ELSE "unidentified_user"

\* The row of the client select for the users row `row` with id u.
ClientRow(h, u, row) ==
    [i \in 1..Len(Columns(h)) |->
        LET c == Columns(h)[i]
        IN  <<c, IF c = "user_id" THEN u
                 ELSE IF c = "user_type" THEN user_type(row)
                 ELSE MakeRow(h, {}, 1)[i][2]>>]

\* The users rows the list query of get_internal_users selects: `where
\* users.internal_user_id is not null and users.entry_deleted_date_time is
\* null and organizations.root_organization_id = ...` (every internal user
\* of the model belongs to the root organization that is asked for).
ListedInternalUsers(d) ==
    {u \in DOMAIN d.users :
        /\ d.users[u].internal_user_id # "null"
        /\ d.users[u].entry_deleted_date_time = "null"}

\* The row of the internal users select for the users row with id u.
InternalUserRow(h, u, total) ==
    [i \in 1..Len(Columns(h)) |->
        LET c == Columns(h)[i]
        IN  <<c, IF c = "user_id" THEN u ELSE MakeRow(h, {}, total)[i][2]>>]

\* `offset ... limit ...` without `order by`: any `limit` of the selected
\* rows that remain after `offset`, in any order; count(*) over() counts
\* the selected rows.
PageOf(h, selected, offset, limit) ==
    LET remaining == IF Cardinality(selected) > offset
                     THEN Cardinality(selected) - offset ELSE 0
        n == IF remaining < limit THEN remaining ELSE limit
    IN  {[i \in 1..n |-> InternalUserRow(h, page[i], Cardinality(selected))] :
            page \in {q \in [1..n -> selected] :
                         \A i, j \in 1..n : q[i] = q[j] => i = j}}

\* The results the select whose rows lambda_handler reshapes can return.
\* requalify_client reads the users row it has just updated: `where
\* users.user_id = %(user_id)s limit 1` over left joins.
SelectedRows(h, args, d) ==
    IF h = "requalify_client"
    THEN {IF Get(args, "user_id") \in DOMAIN d.users
          THEN <<ClientRow(h, args["user_id"], d.users[args["user_id"]])>>
          ELSE << >>}
    ELSE IF h = "get_internal_users"
    THEN PageOf(h, ListedInternalUsers(d), args["offset"], args["limit"])
    ELSE QueryResults(h)

\* `sql_arguments["..."] = ...`: the key the function stores the returned id under.
ReturnedKey(stmt) ==
    IF stmt = "insert_identified_users" THEN "identified_user_id"
    ELSE IF stmt \in {"insert_unidentified_users", "update_users_type"} THEN "unidentified_user_id"
    ELSE IF stmt = "insert_internal_users" THEN "internal_user_id"
    ELSE "none"

\* Mutant of SqlArguments: the page number taken as counted from zero.
SqlArguments_PageFromZero(fn, args) ==
    IF fn \in {"get_clients_data", "get_internal_users_data"}
    THEN [root_organization_id |-> args["root_organization_id"],
          limit |-> IntOf(args["items_count_per_page"]),
          offset |-> IntOf(args["current_page_number"]) * IntOf(args["items_count_per_page"])]
    ELSE EmptyMap

\* The sql_arguments lambda_handler passes to the list queries (those of the
\* other functions are not looked into).
SqlArguments(fn, args) ==
    IF fn \in {"get_clients_data", "get_internal_users_data"}
    THEN [root_organization_id |-> args["root_organization_id"],
          limit |-> IntOf(args["items_count_per_page"]),
          offset |-> (IntOf(args["current_page_number"]) - 1)
                         * IntOf(args["items_count_per_page"])]
    ELSE EmptyMap

\* The functions that return the user_id of the users row they inserted.
CreateFunctions == {"create_identified_user", "create_unidentified_user", "create_internal_user"}

\* The sql_arguments lambda_handler of h passes to the wrapped function fn:
\* the create handlers read the new user back by the local `user_id`.  (The
\* writing functions are handed input_arguments itself, see ExecuteEnd.)
sql_arguments(h, fn, args, uid) ==
    IF fn \in {"get_clients_data", "get_internal_users_data"} THEN SqlArguments(fn, args)
    ELSE IF h \in CreateFunctions
            /\ fn \in {"get_identified_user_data", "get_unidentified_user_data",
                       "get_internal_user_data"}
    THEN [k \in {"user_id"} |-> uid]
    ELSE IF fn \in {"get_client_data", "get_identified_user_data"}
    THEN [k \in {"user_id"} |-> Get(args, "user_id")]
    ELSE IF fn = "get_internal_user_data"
    THEN [k \in {"auth0_user_id"} |-> Get(args, "auth0_user_id")]
    ELSE EmptyMap

NoResponse == [status |-> "none", error |-> "none", body |-> "none"]
Success == [status |-> "success", error |-> "none", body |-> "none"]
Failure(x) == [status |-> "error", error |-> x, body |-> "none"]

Init ==
    /\ handler \in Handlers
    /\ POSTGRESQL_CONNECTION = "None"
    /\ createCalls = [ok |-> 0, failed |-> 0]
    /\ invocations = 0
    /\ event = EmptyMap
    /\ pc = "idle"
    /\ ip = 0
    /\ runnerCall = 0
    /\ threads = EmptyMap
    /\ queue = << >>
    /\ results_of_tasks = EmptyMap
    /\ input_arguments = EmptyMap
    /\ aggregated_data = EmptyMap
    /\ call = [x \in Executors |-> NoCall]
    /\ openCursors = {}
    /\ openedCursors = {}
    /\ inflight = {}
    /\ sqlLog = << >>
    /\ io = {}
    /\ response = NoResponse
    /\ store = {}
    /\ pending = {}
    /\ db \in InitialDatabases(handler)
    /\ user_id = "None"
    /\ lastSucceeded = "none"

\* The host delivers the next event to lambda_handler.
Invoke(e) ==
    /\ pc \in {"idle", "done", "failed"}
    /\ invocations < MaxInvocations
    /\ invocations' = invocations + 1
    /\ event' = e
    /\ pc' = "entry"
    /\ ip' = 0
    /\ runnerCall' = 0
    /\ threads' = EmptyMap
    /\ queue' = << >>
    /\ results_of_tasks' = EmptyMap
    /\ input_arguments' = EmptyMap
    /\ aggregated_data' = EmptyMap
    /\ call' = [x \in Executors |-> NoCall]
    /\ openCursors' = {}
    /\ openedCursors' = {}
    /\ inflight' = {}
    /\ sqlLog' = << >>
    /\ io' = {}
    /\ response' = NoResponse
    /\ user_id' = "None"
    /\ UNCHANGED <<store, pending, db, lastSucceeded>>
    /\ UNCHANGED <<handler, POSTGRESQL_CONNECTION, createCalls>>

CurrentStep == Pipeline(handler, input_arguments)[ip]

AtStep(kind) ==
    /\ pc = "seq"
    /\ ip \in 1..Len(Pipeline(handler, input_arguments))
    /\ CurrentStep.kind = kind

\* run_multithreading_tasks up to and including `thread.start()` of every thread.
RunMultithreadingTasksStart ==
    /\ \/ /\ pc = "entry"
          /\ handler \in ThreadedHandlers
          /\ runnerCall' = 1
          /\ threads' = [t \in PreparationTasks(handler) |-> "running"]
       \/ /\ AtStep("parallel")
          /\ runnerCall' = 2
          /\ threads' = [t \in UpdateTasks |-> "running"]
    /\ queue' = << >>
    /\ pc' = "join"
    /\ UNCHANGED <<store, pending, db, user_id, lastSucceeded>>
    /\ UNCHANGED <<handler, POSTGRESQL_CONNECTION, createCalls, invocations, event, ip,
                   results_of_tasks, input_arguments, aggregated_data, call, openCursors,
                   openedCursors, inflight, sqlLog, io, response>>

Running(t) == t \in DOMAIN threads /\ threads[t] = "running"

\* Mutant of QueuePut: queue.put placed before the checks.
QueuePut_BeforeChecks(o) == <<[k \in {"input_arguments"} |-> o.args]>>

\* What check_input_arguments has put in the queue when it ends with outcome o:
\* its queue.put is its last statement, after every check.
QueuePut(o) == IF o.ok THEN <<[k \in {"input_arguments"} |-> o.args]>> ELSE << >>

\* Thread of check_input_arguments.
CheckInputArguments ==
    /\ Running("check_input_arguments")
    /\ \E o \in CheckInputOutcomes(handler, event) :
          /\ queue' = queue \o QueuePut(o)
          /\ threads' = [threads EXCEPT !["check_input_arguments"] =
                                            IF o.ok THEN "done" ELSE "raised"]
    /\ UNCHANGED <<store, pending, db, user_id, lastSucceeded>>
    /\ UNCHANGED <<handler, POSTGRESQL_CONNECTION, createCalls, invocations, event, pc, ip,
                   runnerCall, results_of_tasks, input_arguments, aggregated_data, call,
                   openCursors, openedCursors, inflight, sqlLog, io, response>>

\* Thread of reuse_or_recreate_postgresql_connection.
ReuseOrRecreatePostgresqlConnection ==
    /\ Running("reuse_or_recreate_postgresql_connection")
    /\ IF NeedsCreate(POSTGRESQL_CONNECTION)
       THEN /\ io' = io \cup {"create_postgresql_connection"}
            /\ \E created \in BOOLEAN :
                 IF created
                 THEN /\ POSTGRESQL_CONNECTION' = "connection"
                      /\ createCalls' = [createCalls EXCEPT !.ok = @ + 1]
                      /\ queue' = Append(queue, [k \in {"postgresql_connection"} |-> "connection"])
                      /\ threads' = [threads EXCEPT !["reuse_or_recreate_postgresql_connection"] = "done"]
                 ELSE /\ POSTGRESQL_CONNECTION' = POSTGRESQL_CONNECTION
                      /\ createCalls' = [createCalls EXCEPT !.failed = @ + 1]
                      /\ queue' = queue
                      /\ threads' = [threads EXCEPT !["reuse_or_recreate_postgresql_connection"] = "raised"]
       ELSE /\ queue' = Append(queue, [k \in {"postgresql_connection"} |-> POSTGRESQL_CONNECTION])
            /\ threads' = [threads EXCEPT !["reuse_or_recreate_postgresql_connection"] = "done"]
            /\ UNCHANGED <<POSTGRESQL_CONNECTION, createCalls, io>>
    /\ UNCHANGED <<store, pending, db, user_id, lastSucceeded>>
    /\ UNCHANGED <<handler, invocations, event, pc, ip, runnerCall, results_of_tasks,
                   input_arguments, aggregated_data, call, openCursors, openedCursors,
                   inflight, sqlLog, response>>

\* Thread of get_access_token_from_auth0 (create_internal_user).
GetAccessTokenFromAuth0 ==
    /\ Running("get_access_token_from_auth0")
    /\ io' = io \cup {"oauth_token"}
    /\ \E granted \in BOOLEAN :
          IF granted
          THEN /\ queue' = Append(queue, [k \in {"access_token"} |-> "token"])
               /\ threads' = [threads EXCEPT !["get_access_token_from_auth0"] = "done"]
          ELSE /\ queue' = queue
               /\ threads' = [threads EXCEPT !["get_access_token_from_auth0"] = "raised"]
    /\ UNCHANGED <<store, pending, db, user_id, lastSucceeded>>
    /\ UNCHANGED <<handler, POSTGRESQL_CONNECTION, createCalls, invocations, event, pc, ip,
                   runnerCall, results_of_tasks, input_arguments, aggregated_data, call,
                   openCursors, openedCursors, inflight, sqlLog, response>>

\* run_multithreading_tasks from the joins to `return results`.
RunMultithreadingTasksReturn ==
    /\ pc = "join"
    /\ Joined(threads)
    /\ IF runnerCall = 1
       THEN /\ results_of_tasks' = Drain(EmptyMap, queue)
            /\ pc' = "returned"
            /\ ip' = ip
       ELSE \* restore_deleted_internal_users ignores the value of its second call
            /\ results_of_tasks' = results_of_tasks
            /\ pc' = "seq"
            /\ ip' = ip + 1
    /\ queue' = << >>
    /\ UNCHANGED <<store, pending, db, user_id, lastSucceeded>>
    /\ UNCHANGED <<handler, POSTGRESQL_CONNECTION, createCalls, invocations, event,
                   runnerCall, threads, input_arguments, aggregated_data, call, openCursors,
                   openedCursors, inflight, sqlLog, io, response>>

(***************************************************************************)
(* lambda_handler after the barrier.                                       *)
(***************************************************************************)
\* The keys lambda_handler subscripts in results_of_tasks ...
ResultKeys(h) ==
    IF h = "create_internal_user"
    THEN {"input_arguments", "postgresql_connection", "access_token"}
    ELSE {"input_arguments", "postgresql_connection"}

\* ... and in input_arguments, before its first statement.
HandlerSubscripts(h) ==
    CASE h = "get_client" -> {"user_id"}
      [] h \in {"get_clients", "get_internal_users"} ->
             {"root_organization_id", "items_count_per_page", "current_page_number"}
      [] h = "get_internal_user" -> {"auth0_user_id"}
      [] h = "create_internal_user" ->
             {"auth0_user_id", "internal_user_first_name", "internal_user_last_name",
              "internal_user_primary_email", "password"}
      [] h = "update_identified_user" -> {"user_id"}
      [] h = "update_internal_user" -> {"auth0_user_id"}
      [] h = "restore_deleted_internal_users" -> {"users_ids"}
      [] OTHER -> {}

\* `input_arguments = results_of_tasks["input_arguments"]` and the lines after it:
\* a missing key is a KeyError that ends the invocation.
UnpackResults ==
    /\ pc = "returned"
    /\ IF /\ ResultKeys(handler) \subseteq DOMAIN results_of_tasks
          /\ HandlerSubscripts(handler) \subseteq DOMAIN results_of_tasks["input_arguments"]
       THEN /\ input_arguments' = results_of_tasks["input_arguments"]
            /\ pc' = "seq"
            /\ ip' = 1
            /\ response' = response
       ELSE /\ input_arguments' = input_arguments
            /\ pc' = "failed"
            /\ ip' = ip
            /\ response' = Failure("KeyError")
    /\ UNCHANGED <<store, pending, db, user_id, lastSucceeded>>
    /\ UNCHANGED <<handler, POSTGRESQL_CONNECTION, createCalls, invocations, event,
                   runnerCall, threads, queue, results_of_tasks, aggregated_data, call,
                   openCursors, openedCursors, inflight, sqlLog, io>>

\* get_roles and the older handlers obtain the connection in the main thread.
\* get_roles and get_countries read nothing from the event.
AfterConnect(h) == IF h \in {"get_roles", "get_countries"} THEN "seq" ELSE "read_arguments"

Connect ==
    /\ pc = "entry"
    /\ handler \in DirectHandlers \cup LegacyHandlers
    /\ IF NeedsCreate(POSTGRESQL_CONNECTION)
       THEN /\ io' = io \cup {"create_postgresql_connection"}
            /\ \E created \in BOOLEAN :
                 IF created
                 THEN /\ POSTGRESQL_CONNECTION' = "connection"
                      /\ createCalls' = [createCalls EXCEPT !.ok = @ + 1]
                      /\ pc' = AfterConnect(handler)
                      /\ response' = response
                 ELSE /\ POSTGRESQL_CONNECTION' = POSTGRESQL_CONNECTION
                      /\ createCalls' = [createCalls EXCEPT !.failed = @ + 1]
                      /\ pc' = FailureExit(handler)
                      /\ response' = Failure("ConnectionError")
       ELSE /\ pc' = AfterConnect(handler)
            /\ UNCHANGED <<POSTGRESQL_CONNECTION, createCalls, io, response>>
    /\ ip' = IF pc' = "seq" THEN 1 ELSE ip
    /\ UNCHANGED <<store, pending, db, user_id, lastSucceeded>>
    /\ UNCHANGED <<handler, invocations, event, runnerCall, threads, queue,
                   results_of_tasks, input_arguments, aggregated_data, call, openCursors,
                   openedCursors, inflight, sqlLog>>

\* What the statements before the first cursor.execute of these handlers read
\* from the event: "ok", or the exception they raise.
ReadArguments(h, e) ==
    CASE h \in {"delete_clients", "delete_internal_users"} ->
             IF "usersIds" \notin DOMAIN e THEN "KeyError"
             ELSE IF e["usersIds"] = "null" THEN "TypeError" ELSE "ok"
      [] h = "create_organization" ->
             IF "organizationName" \notin DOMAIN e THEN "KeyError" ELSE "ok"

LocalArguments(h, e) ==
    CASE h \in {"delete_clients", "delete_internal_users"} ->
             [k \in {"users_ids"} |-> e["usersIds"]]
      [] h = "create_organization" ->
             [k \in {"organization_name", "organization_description"} |->
                 IF k = "organization_name" THEN e["organizationName"]
                 ELSE Get(e, "organizationDescription")]

ReadEventArguments ==
    /\ pc = "read_arguments"
    /\ IF ReadArguments(handler, event) = "ok"
       THEN /\ input_arguments' = LocalArguments(handler, event)
            /\ pc' = "seq"
            /\ ip' = 1
            /\ response' = response
       ELSE /\ input_arguments' = input_arguments
            /\ pc' = "failed"
            /\ ip' = ip
            /\ response' = Failure(ReadArguments(handler, event))
    /\ UNCHANGED <<store, pending, db, user_id, lastSucceeded>>
    /\ UNCHANGED <<handler, POSTGRESQL_CONNECTION, createCalls, invocations, event,
                   runnerCall, threads, queue, results_of_tasks, aggregated_data, call,
                   openCursors, openedCursors, inflight, sqlLog, io>>

(***************************************************************************)
(* postgresql_wrapper and the wrapped function, run by executor x: the     *)
(* main thread, or a thread of restore_deleted_internal_users.             *)
(***************************************************************************)
\* `cursor = postgresql_connection.cursor(...)`
WrapperOpen(x) ==
    /\ call[x].phase = "none"
    /\ IF x = "main"
       THEN /\ AtStep("call")
            /\ call' = [call EXCEPT ![x] = [fn |-> CurrentStep.fn, stmts |-> CurrentStep.stmts,
                                            sp |-> 1, phase |-> "open",
                                            args |-> sql_arguments(handler, CurrentStep.fn,
                                                                   input_arguments, user_id),
                                            result |-> "None"]]
       ELSE /\ Running(x)
            /\ call' = [call EXCEPT ![x] = [fn |-> x, stmts |-> TaskStatements(x),
                                            sp |-> 1, phase |-> "open", args |-> EmptyMap,
                                            result |-> "None"]]
    /\ openCursors' = openCursors \cup {call'[x].fn}
    /\ openedCursors' = openedCursors \cup {call'[x].fn}
    /\ UNCHANGED <<store, pending, db, user_id, lastSucceeded>>
    /\ UNCHANGED <<handler, POSTGRESQL_CONNECTION, createCalls, invocations, event, pc, ip,
                   runnerCall, threads, queue, results_of_tasks, input_arguments,
                   aggregated_data, inflight, sqlLog, io, response>>

\* An exception leaves executor x: it ends the invocation (main thread) or
\* only the thread.  Only a failed cursor.execute is caught by the older
\* handlers' `except ...: sys.exit(1)`.
RaiseIn(x, error) ==
    IF x = "main"
    THEN /\ pc' = IF error = "StatementError" THEN FailureExit(handler) ELSE "failed"
         /\ response' = Failure(error)
         /\ threads' = threads
    ELSE /\ pc' = pc
         /\ response' = response
         /\ threads' = [threads EXCEPT ![x] = "raised"]

\* The function reaches its next cursor.execute (or the `if` around it).
ExecuteBegin(x) ==
    /\ call[x].phase = "open"
    /\ call[x].sp <= Len(call[x].stmts)
    /\ LET stmt == call[x].stmts[call[x].sp]
           guard == StatementGuard(handler, stmt, input_arguments, aggregated_data)
       IN  CASE guard = "run" ->
                   /\ call' = [call EXCEPT ![x].phase = "exec"]
                   /\ inflight' = inflight \cup {<<x, stmt>>}
                   /\ UNCHANGED <<pc, response, threads>>
             [] guard = "skip" ->
                   /\ call' = [call EXCEPT ![x].sp = @ + 1]
                   /\ UNCHANGED <<inflight, pc, response, threads>>
             [] guard = "raise" ->
                   /\ call' = [call EXCEPT ![x].phase = "raised"]
                   /\ inflight' = inflight
                   /\ RaiseIn(x, "TypeError")
    /\ UNCHANGED <<store, pending, db, user_id, lastSucceeded>>
    /\ UNCHANGED <<handler, POSTGRESQL_CONNECTION, createCalls, invocations, event, ip,
                   runnerCall, queue, results_of_tasks, input_arguments, aggregated_data,
                   openCursors, openedCursors, sqlLog, io>>

\* `cursor.fetchone()["..."]` after a statement that returned no row:
\* None is not subscriptable (TypeError, which `except KeyError` lets through).
FetchoneFails(stmt, returned) == stmt = "update_users_type" /\ returned = "None"

\* The ids among the parameters bound to the statement.
Parameters(stmt, frame_arguments, args) ==
    IF stmt = "insert_users"
    THEN [k \in {"identified_user_id", "unidentified_user_id", "internal_user_id"}
               \cap DOMAIN args |-> args[k]]
    ELSE IF stmt \in {"update_users_type", "update_unidentified_users_deleted"}
    THEN [k \in {"user_id", "identified_user_id", "unidentified_user_id"}
               \cap DOMAIN args |-> args[k]]
    ELSE frame_arguments

\* cursor.execute returns or raises.  A statement that returned is part of
\* the open transaction until commit(), or is committed at once by a
\* connection in autocommit mode.  sys.exit ends the process, and with it
\* the open transaction.
ExecuteEnd(x) ==
    /\ call[x].phase = "exec"
    /\ LET stmt == call[x].stmts[call[x].sp]
           written == {stmt} \cap WriteStatements
           returned == Returned(stmt, input_arguments, db)
       IN  /\ inflight' = inflight \ {<<x, stmt>>}
           /\ \E executed \in StatementOutcomes(handler, stmt, input_arguments, aggregated_data) :
                /\ sqlLog' = Append(sqlLog, [stmt |-> stmt, ok |-> executed, by |-> x,
                                             params |-> Parameters(stmt, call[x].args,
                                                                   input_arguments),
                                             returned |-> IF executed THEN returned ELSE "None"])
                /\ IF executed /\ ~FetchoneFails(stmt, returned)
                   THEN /\ IF ExplicitCommit(handler)
                           THEN /\ pending' = pending \cup written
                                /\ store' = store
                                /\ db' = db
                                /\ call' = IF CommitsAfter(call[x].stmts, call[x].sp)
                                           THEN [call EXCEPT ![x].phase = "commit"]
                                           ELSE [call EXCEPT ![x].phase = "open", ![x].sp = @ + 1]
                           ELSE /\ pending' = pending
                                /\ store' = IF AutoCommit(handler) THEN store \cup written ELSE store
                                /\ db' = IF AutoCommit(handler)
                                         THEN Execute(handler, stmt, input_arguments, db) ELSE db
                                /\ call' = [call EXCEPT ![x].phase = "open", ![x].sp = @ + 1,
                                                        ![x].result = IF stmt = "insert_users"
                                                                      THEN returned ELSE @]
                        /\ IF stmt = "select_aggregated"
                           THEN aggregated_data' \in
                                    {row \in AggregatedRows(handler) :
                                        row = AggregatedRow(handler, db,
                                                            Get(input_arguments, "users_ids"))}
                           ELSE IF stmt = ResponseStatement(handler)
                           THEN aggregated_data' \in SelectedRows(handler, call[x].args, db)
                           ELSE aggregated_data' = aggregated_data
                        /\ input_arguments' = IF ReturnedKey(stmt) # "none"
                                              THEN Put(input_arguments, ReturnedKey(stmt), returned)
                                              ELSE input_arguments
                        /\ UNCHANGED <<pc, response, threads>>
                   ELSE /\ call' = [call EXCEPT ![x].phase = "raised"]
                        /\ aggregated_data' = aggregated_data
                        /\ input_arguments' = input_arguments
                        /\ IF executed
                           THEN \* the statement was executed, the lines after it raise
                                /\ store' = IF AutoCommit(handler) THEN store \cup written ELSE store
                                /\ db' = IF AutoCommit(handler)
                                         THEN Execute(handler, stmt, input_arguments, db) ELSE db
                                /\ pending' = pending
                                /\ RaiseIn(x, "TypeError")
                           ELSE /\ store' = store
                                /\ db' = db
                                /\ pending' = IF x = "main" /\ FailureExit(handler) = "exited"
                                              THEN {} ELSE pending
                                /\ RaiseIn(x, "StatementError")
    /\ UNCHANGED <<handler, POSTGRESQL_CONNECTION, createCalls, invocations, event, ip,
                   runnerCall, queue, results_of_tasks, openCursors, openedCursors, io,
                   user_id, lastSucceeded>>

\* `postgresql_connection.commit()` returns or raises (it is outside any try).
Commit(x) ==
    /\ call[x].phase = "commit"
    /\ \E committed \in BOOLEAN :
         IF committed
         THEN /\ store' = store \cup pending
              /\ db' = ExecuteAll(handler, pending, input_arguments, db)
              /\ pending' = {}
              /\ call' = [call EXCEPT ![x].phase = "open", ![x].sp = @ + 1]
              /\ UNCHANGED <<pc, response, threads>>
         ELSE \* a commit that fails leaves nothing of its transaction
              /\ store' = store
              /\ db' = db
              /\ pending' = {}
              /\ call' = [call EXCEPT ![x].phase = "raised"]
              /\ RaiseIn(x, "CommitError")
    /\ UNCHANGED <<handler, POSTGRESQL_CONNECTION, createCalls, invocations, event, ip,
                   runnerCall, queue, results_of_tasks, input_arguments, aggregated_data,
                   openCursors, openedCursors, inflight, sqlLog, io, user_id,
                   lastSucceeded>>

\* The function returned: `cursor.close()` and `return result`.
WrapperClose(x) ==
    /\ call[x].phase = "open"
    /\ call[x].sp > Len(call[x].stmts)
    /\ openCursors' = openCursors \ {call[x].fn}
    /\ call' = [call EXCEPT ![x] = NoCall]
    /\ IF x = "main"
       THEN /\ ip' = ip + 1
            /\ threads' = threads
       ELSE /\ ip' = ip
            /\ threads' = [threads EXCEPT ![x] = "done"]
    /\ user_id' = IF x = "main" /\ call[x].fn \in CreateFunctions
                  THEN call[x].result ELSE user_id
    /\ UNCHANGED <<store, pending, db, lastSucceeded>>
    /\ UNCHANGED <<handler, POSTGRESQL_CONNECTION, createCalls, invocations, event, pc,
                   runnerCall, queue, results_of_tasks, input_arguments, aggregated_data,
                   openedCursors, inflight, sqlLog, io, response>>

\* The two handlers that set and clear the deletion mark of internal users.
InternalUsersLifecycle == {"delete_internal_users", "restore_deleted_internal_users"}

\* lambda_handler reaches its `return`.
Return ==
    /\ pc = "seq"
    /\ ip > Len(Pipeline(handler, input_arguments))
    /\ LET o == FormatOutcome(handler, aggregated_data)
       IN  IF o.ok
           THEN /\ pc' = "done"
                /\ response' = [Success EXCEPT !.body = o.body]
           ELSE /\ pc' = "failed"
                /\ response' = Failure(o.error)
    /\ lastSucceeded' = IF pc' = "done" /\ handler \in InternalUsersLifecycle
                        THEN handler ELSE lastSucceeded
    /\ UNCHANGED <<store, pending, db, user_id>>
    /\ UNCHANGED <<handler, POSTGRESQL_CONNECTION, createCalls, invocations, event, ip,
                   runnerCall, threads, queue, results_of_tasks, input_arguments,
                   aggregated_data, call, openCursors, openedCursors, inflight, sqlLog, io>>

Next ==
    \/ \E e \in Events(handler) : Invoke(e)
    \/ RunMultithreadingTasksStart
    \/ CheckInputArguments
    \/ ReuseOrRecreatePostgresqlConnection
    \/ GetAccessTokenFromAuth0
    \/ RunMultithreadingTasksReturn
    \/ UnpackResults
    \/ Connect
    \/ ReadEventArguments
    \/ \E x \in Executors : WrapperOpen(x)
    \/ \E x \in Executors : ExecuteBegin(x)
    \/ \E x \in Executors : ExecuteEnd(x)
    \/ \E x \in Executors : Commit(x)
    \/ \E x \in Executors : WrapperClose(x)
    \/ Return

Spec == Init /\ [][Next]_vars

(***************************************************************************)
(* The reshapers on their own: lambda_handler at its `return`, holding any *)
(* result the response select can produce.                                 *)
(***************************************************************************)
ReshapingHandlers == ClientReshapers \cup InternalUserReshapers \cup ListReshapers

InitReshape ==
    /\ handler \in ReshapingHandlers
    /\ aggregated_data \in AllQueryResults(handler)
    /\ POSTGRESQL_CONNECTION = "connection"
    /\ createCalls = [ok |-> 1, failed |-> 0]
    /\ invocations = 1
    /\ event = EmptyMap
    /\ pc = "seq"
    /\ ip = Len(Pipeline(handler, EmptyMap)) + 1
    /\ runnerCall = 0
    /\ threads = EmptyMap
    /\ queue = << >>
    /\ results_of_tasks = EmptyMap
    /\ input_arguments = EmptyMap
    /\ call = [x \in Executors |-> NoCall]
    /\ openCursors = {}
    /\ openedCursors = {}
    /\ inflight = {}
    /\ sqlLog = << >>
    /\ io = {}
    /\ response = NoResponse
    /\ store = {}
    /\ pending = {}
    /\ db = EmptyDatabase
    /\ user_id = "None"
    /\ lastSucceeded = "none"

SpecReshape == InitReshape /\ [][Return]_vars

(***************************************************************************)
(* The reshapers applied twice: the entity a single-row reshaper returned  *)
(* is flattened back to a row, each group's prefix put before the          *)
(* snake_case of its sub-keys, and that row is reshaped again.             *)
(***************************************************************************)
\* The column a key of the entity is flattened to ("top": no prefix).
FlatColumn(g, k) == IF g = "top" THEN snake_case(k) ELSE (g \o "_") \o snake_case(k)

FlatPairs(entity) ==
    {<<FlatColumn("top", k), entity.top[k]>> : k \in DOMAIN entity.top}
    \cup UNION {{<<FlatColumn(g, k), entity.groups[g][k]>> : k \in DOMAIN entity.groups[g]} :
                   g \in DOMAIN entity.groups}

RECURSIVE SeqOfSet(_)
SeqOfSet(S) ==
    IF S = {} THEN << >>
    ELSE LET x == CHOOSE y \in S : TRUE IN <<x>> \o SeqOfSet(S \ {x})

Flatten(entity) == SeqOfSet(FlatPairs(entity))

\* The entity returned is kept, flattened and handed to the reshaper again.
Reflatten ==
    /\ pc = "done"
    /\ handler \in ClientReshapers \cup InternalUserReshapers
    /\ aggregated_data # << >>
    /\ "entity" \notin DOMAIN results_of_tasks
    /\ results_of_tasks' = [k \in {"entity"} |-> response.body]
    /\ aggregated_data' = <<Flatten(response.body)>>
    /\ pc' = "seq"
    /\ response' = NoResponse
    /\ UNCHANGED <<store, pending, db, user_id, lastSucceeded>>
    /\ UNCHANGED <<handler, POSTGRESQL_CONNECTION, createCalls, invocations, event, ip,
                   runnerCall, threads, queue, input_arguments, call, openCursors,
                   openedCursors, inflight, sqlLog, io>>

NextRoundTrip ==
    \/ Return
    \/ Reflatten

SpecRoundTrip == InitReshape /\ [][NextRoundTrip]_vars

(***************************************************************************)
(* The phone cleaning of check_input_arguments on its own: the thread of   *)
(* check_input_arguments has been started on an input with phone numbers.  *)
(***************************************************************************)
MaxPhoneLength == 3
MaxListedPhoneLength == 2
MaxPhones == 2

PhoneAlphabet == {"+", "7", " ", "a"}

\* The strings of at most n characters.
Strings(n) == UNION {[1..k -> PhoneAlphabet] : k \in 0..n}

PhoneLists == UNION {[1..k -> Strings(MaxListedPhoneLength)] : k \in 0..MaxPhones}

PhoneHandlers == {"create_identified_user", "update_identified_user"}

\* The handlers whose check_input_arguments names the phone fields.
PhoneFieldHandlers == PhoneHandlers \cup {"requalify_client", "create_internal_user"}

\* A valid input without phone numbers.
PlainEvent(h) ==
    IF h = "create_identified_user" THEN [f \in {"metadata"} |-> "text"]
    ELSE IF h = "requalify_client"
    THEN [f \in {"userId", "metadata"} |-> IF f = "userId" THEN "uuid" ELSE "text"]
    ELSE IF h = "create_internal_user" THEN [f \in {"userPrimaryEmail", "password"} |-> "text"]
    ELSE [f \in {"userId"} |-> "uuid"]

PhoneEvents(h) ==
    {PlainEvent(h)}
    \cup {Put(PlainEvent(h), "userPrimaryPhoneNumber", p) : p \in Strings(MaxPhoneLength)}
    \cup {Put(PlainEvent(h), "userSecondaryPhoneNumber", l) : l \in PhoneLists}
    \cup {Put(Put(PlainEvent(h), "userPrimaryPhoneNumber", p), "userSecondaryPhoneNumber", <<p>>) :
              p \in Strings(MaxListedPhoneLength)}

InitPhone ==
    /\ handler \in PhoneFieldHandlers
    /\ event \in PhoneEvents(handler)
    /\ POSTGRESQL_CONNECTION = "None"
    /\ createCalls = [ok |-> 0, failed |-> 0]
    /\ invocations = 1
    /\ pc = "join"
    /\ ip = 0
    /\ runnerCall = 1
    /\ threads = [t \in PreparationTasks(handler) |-> "running"]
    /\ queue = << >>
    /\ results_of_tasks = EmptyMap
    /\ input_arguments = EmptyMap
    /\ aggregated_data = EmptyMap
    /\ call = [x \in Executors |-> NoCall]
    /\ openCursors = {}
    /\ openedCursors = {}
    /\ inflight = {}
    /\ sqlLog = << >>
    /\ io = {}
    /\ response = NoResponse
    /\ store = {}
    /\ pending = {}
    /\ db = EmptyDatabase
    /\ user_id = "None"
    /\ lastSucceeded = "none"

SpecPhone == InitPhone /\ [][CheckInputArguments]_vars

(***************************************************************************)
(* The paging of get_clients and get_internal_users on its own:            *)
(* lambda_handler has unpacked the checked input and calls the list query. *)
(***************************************************************************)
MaxItemsCount == 10
MaxPageNumber == 2

PageEvents ==
    {[f \in {"rootOrganizationId", "itemsCountPerPage", "currentPageNumber"} |->
         CASE f = "rootOrganizationId" -> "uuid"
           [] f = "itemsCountPerPage" -> Numerals[n + 1]
           [] f = "currentPageNumber" -> Numerals[p + 1]] :
       n \in 0..MaxItemsCount, p \in 0..MaxPageNumber}

InitPage ==
    /\ handler \in ListReshapers
    /\ event \in PageEvents
    /\ input_arguments = ArgumentMap(handler, event)
    /\ results_of_tasks = [k \in {"input_arguments", "postgresql_connection"} |->
                              IF k = "input_arguments" THEN input_arguments ELSE "connection"]
    /\ POSTGRESQL_CONNECTION = "connection"
    /\ createCalls = [ok |-> 1, failed |-> 0]
    /\ invocations = 1
    /\ pc = "seq"
    /\ ip = 1
    /\ runnerCall = 1
    /\ threads = [t \in PreparationTasks(handler) |-> "done"]
    /\ queue = << >>
    /\ aggregated_data = EmptyMap
    /\ call = [x \in Executors |-> NoCall]
    /\ openCursors = {}
    /\ openedCursors = {}
    /\ inflight = {}
    /\ sqlLog = << >>
    /\ io = {"create_postgresql_connection"}
    /\ response = NoResponse
    /\ store = {}
    /\ pending = {}
    /\ db = EmptyDatabase
    /\ user_id = "None"
    /\ lastSucceeded = "none"

SpecPage == InitPage /\ [][WrapperOpen("main")]_vars

(***************************************************************************)
(* The three functions that work on internal users, sharing one data       *)
(* store: the host delivers each event to one of them.  A function other   *)
(* than the one that ran last, or one whose process has exited, runs in a  *)
(* process started for the invocation.                                     *)
(***************************************************************************)
MaxStoreInvocations == 3

StoreHandlers == {"delete_internal_users", "restore_deleted_internal_users", "get_internal_users"}

\* The events: the list of ids that names user_1, and the first page of two
\* items of the root organization.
StoreEvents(h) ==
    IF h = "get_internal_users"
    THEN {[f \in {"rootOrganizationId", "itemsCountPerPage", "currentPageNumber"} |->
              IF f = "rootOrganizationId" THEN "uuid"
              ELSE IF f = "itemsCountPerPage" THEN "2" ELSE "1"]}
    ELSE {[f \in {"usersIds"} |-> "list"]}

InitStore ==
    /\ handler \in StoreHandlers
    /\ POSTGRESQL_CONNECTION = "None"
    /\ createCalls = [ok |-> 0, failed |-> 0]
    /\ invocations = 0
    /\ event = EmptyMap
    /\ pc = "idle"
    /\ ip = 0
    /\ runnerCall = 0
    /\ threads = EmptyMap
    /\ queue = << >>
    /\ results_of_tasks = EmptyMap
    /\ input_arguments = EmptyMap
    /\ aggregated_data = EmptyMap
    /\ call = [x \in Executors |-> NoCall]
    /\ openCursors = {}
    /\ openedCursors = {}
    /\ inflight = {}
    /\ sqlLog = << >>
    /\ io = {}
    /\ response = NoResponse
    /\ store = {}
    /\ pending = {}
    /\ db = DatabaseOf({"user_1", "user_4"})
    /\ user_id = "None"
    /\ lastSucceeded = "none"

InvokeFunction(h, e) ==
    /\ pc \in {"idle", "done", "failed", "exited"}
    /\ invocations < MaxStoreInvocations
    /\ handler' = h
    /\ IF h = handler /\ pc # "exited"
       THEN UNCHANGED <<POSTGRESQL_CONNECTION, createCalls, pending>>
       ELSE /\ POSTGRESQL_CONNECTION' = "None"
            /\ createCalls' = [ok |-> 0, failed |-> 0]
            /\ pending' = {}
    /\ invocations' = invocations + 1
    /\ event' = e
    /\ pc' = "entry"
    /\ ip' = 0
    /\ runnerCall' = 0
    /\ threads' = EmptyMap
    /\ queue' = << >>
    /\ results_of_tasks' = EmptyMap
    /\ input_arguments' = EmptyMap
    /\ aggregated_data' = EmptyMap
    /\ call' = [x \in Executors |-> NoCall]
    /\ openCursors' = {}
    /\ openedCursors' = {}
    /\ inflight' = {}
    /\ sqlLog' = << >>
    /\ io' = {}
    /\ response' = NoResponse
    /\ user_id' = "None"
    /\ UNCHANGED <<store, db, lastSucceeded>>

NextStore ==
    \/ \E h \in StoreHandlers : \E e \in StoreEvents(h) : InvokeFunction(h, e)
    \/ RunMultithreadingTasksStart
    \/ CheckInputArguments
    \/ ReuseOrRecreatePostgresqlConnection
    \/ RunMultithreadingTasksReturn
    \/ UnpackResults
    \/ Connect
    \/ ReadEventArguments
    \/ \E x \in Executors : WrapperOpen(x)
    \/ \E x \in Executors : ExecuteBegin(x)
    \/ \E x \in Executors : ExecuteEnd(x)
    \/ \E x \in Executors : Commit(x)
    \/ \E x \in Executors : WrapperClose(x)
    \/ Return

SpecStore == InitStore /\ [][NextStore]_vars

(***************************************************************************)
(* Properties.                                                             *)
(***************************************************************************)
Ended == pc \in {"done", "failed", "exited"}

CheckTask == "check_input_arguments"

TaskRaised(t) == t \in DOMAIN threads /\ threads[t] = "raised"

FailedWrites == {i \in 1..Len(sqlLog) : sqlLog[i].stmt \in WriteStatements /\ ~sqlLog[i].ok}

ExecutedWrites == {i \in 1..Len(sqlLog) : sqlLog[i].stmt \in WriteStatements /\ sqlLog[i].ok}

\* C1: when a task started by run_multithreading_tasks has raised, the runner
\* does not return a result map normally (the error reaches its caller).
C1_TaskErrorPropagates ==
    (pc = "returned" /\ runnerCall = 1) => ~(\E t \in DOMAIN threads : TaskRaised(t))

\* C2: a failed write statement is fatal: the invocation does not hand a
\* success response to the host (in restore_deleted_internal_users: usersIds
\* is not returned when update_internal_users or update_users failed).
C2_WriteFailureIsFatal ==
    FailedWrites # {} => response.status # "success"

\* C3: at the end of an invocation, on every exit path, no cursor opened
\* during the invocation is still open.
C3_CursorsClosedAtEnd ==
    Ended => openCursors = {}

C5_NoIOWhenValidationFails ==
    TaskRaised(CheckTask) =>
        /\ io = {}
        /\ openedCursors = {}
        /\ inflight = {}
        /\ sqlLog = << >>

\* C5 (amended): when check_input_arguments has raised, no cursor is opened
\* and no SQL statement is executed in that invocation; the connection task
\* and the Auth0 token task run concurrently with the validation, so a
\* connection may have been created and a token requested.
C5_NoSqlWhenValidationFails ==
    TaskRaised(CheckTask) =>
        /\ openedCursors = {}
        /\ inflight = {}
        /\ sqlLog = << >>

C5_Witness ==
    /\ handler = "create_internal_user"
    /\ TaskRaised(CheckTask)
    /\ pc = "failed"
    /\ io = {"create_postgresql_connection", "oauth_token"}

\* C6: an input with a key outside the handler's declared fields makes
\* check_input_arguments fail and the invocation fail, in every handler.
C6_UnknownFieldRejected ==
    "foo" \in DOMAIN event =>
        /\ CheckTask \in DOMAIN threads => threads[CheckTask] # "done"
        /\ response.status # "success"

\* C7: an update request with an unrecognized field fails and performs zero
\* writes: no UPDATE statement is sent to the store or executed by it.
C7_UnknownFieldZeroWrites ==
    (handler \in {"update_identified_user", "update_internal_user"} /\ "foo" \in DOMAIN event) =>
        /\ ExecutedWrites = {}
        /\ \A p \in inflight : p[2] \notin WriteStatements
        /\ response.status # "success"

\* C8: the connection handle is unset until an invocation first creates it,
\* is created successfully at most once per process, is never replaced or
\* unset afterwards, is the handle every later invocation obtains, and an
\* invocation that finds it unset attempts the creation (so a failed creation
\* is retried by the next invocation).
C8_ConnectionCreatedOnceAndReused ==
    /\ [](/\ createCalls.ok <= 1
          /\ (POSTGRESQL_CONNECTION = "None") <=> (createCalls.ok = 0)
          /\ invocations = 0 => POSTGRESQL_CONNECTION = "None"
          /\ "postgresql_connection" \in DOMAIN results_of_tasks =>
                 /\ POSTGRESQL_CONNECTION # "None"
                 /\ results_of_tasks["postgresql_connection"] = POSTGRESQL_CONNECTION
          /\ (Ended /\ POSTGRESQL_CONNECTION = "None") =>
                 "create_postgresql_connection" \in io)
    /\ [][POSTGRESQL_CONNECTION # "None" =>
                 /\ POSTGRESQL_CONNECTION' = POSTGRESQL_CONNECTION
                 /\ createCalls' = createCalls]_vars

C8_Witness ==
    /\ handler = "get_client"
    /\ invocations = 2
    /\ createCalls = [ok |-> 1, failed |-> 0]
    /\ pc = "done"
    /\ io = {}
    /\ POSTGRESQL_CONNECTION = "connection"
    /\ results_of_tasks["postgresql_connection"] = "connection"

\* C9: run_multithreading_tasks returns only after every thread it started
\* has ended: outside the runner no task is running, and while a preparation
\* task runs the handler has no result map and no cursor or SQL statement.
C9_Barrier ==
    /\ pc # "join" => \A t \in DOMAIN threads : threads[t] \in {"done", "raised"}
    /\ (\E t \in PreparationTasks(handler) : Running(t)) =>
          /\ DOMAIN results_of_tasks = {}
          /\ openedCursors = {}
          /\ inflight = {}
          /\ sqlLog = << >>

C9_Witness ==
    /\ handler = "create_identified_user"
    /\ runnerCall = 1
    /\ DOMAIN results_of_tasks = {"input_arguments", "postgresql_connection"}
    /\ inflight = {<<"main", "insert_identified_users">>}

\* C10: the tasks put mappings with pairwise-disjoint keys in the queue, and
\* the map run_multithreading_tasks returns is the union of the mappings in
\* the queue, whatever the order in which the tasks put them.
DisjointKeys(q) ==
    \A i, j \in 1..Len(q) : i # j => DOMAIN q[i] \cap DOMAIN q[j] = {}

IsUnionOf(m, q) ==
    /\ DOMAIN m = UNION {DOMAIN q[i] : i \in 1..Len(q)}
    /\ \A i \in 1..Len(q) : \A k \in DOMAIN q[i] : m[k] = q[i][k]

C10_ResultIsUnion ==
    /\ [](DisjointKeys(queue) /\ Len(queue) <= Cardinality(DOMAIN threads))
    /\ [][(pc = "join" /\ pc' = "returned") => IsUnionOf(results_of_tasks', queue)]_vars

C10_Witness ==
    /\ handler = "create_internal_user"
    /\ pc = "returned"
    /\ \A t \in DOMAIN threads : threads[t] = "done"
    /\ DOMAIN results_of_tasks = {"input_arguments", "postgresql_connection", "access_token"}

\* The handlers that mark rows as deleted with one statement per table.
DeleteHandlers == {"delete_clients", "delete_internal_users"}

\* The statements that executed in this invocation.
ExecutedStatements == {sqlLog[i].stmt : i \in {j \in 1..Len(sqlLog) : sqlLog[j].ok}}

\* C11: in delete_clients and delete_internal_users every statement commits
\* by itself and nothing is rolled back: no statement starts while an earlier
\* one is uncommitted, a write that executed before a later statement is in
\* the store, a failed write ends the invocation with an error, the store
\* holds no effect of a statement that did not execute, and no step removes
\* anything from the store.
C11_CommittedMarksSurviveFailure ==
    /\ [](handler \in DeleteHandlers =>
            /\ inflight # {} => pending = {}
            /\ \A i \in 1..Len(sqlLog) :
                 (i < Len(sqlLog) /\ sqlLog[i].ok /\ sqlLog[i].stmt \in WriteStatements)
                    => sqlLog[i].stmt \in store
            /\ FailedWrites # {} => (pc = "exited" /\ response.status = "error")
            /\ invocations = 1 => store \subseteq ExecutedStatements)
    /\ [][(handler \in DeleteHandlers) => (store \subseteq store')]_vars

C11_Witness ==
    /\ handler = "delete_clients"
    /\ invocations = 1
    /\ pc = "exited"
    /\ store = {"update_identified_users_deleted", "update_unidentified_users_deleted"}
    /\ Len(sqlLog) = 4
    /\ sqlLog[4].stmt = "update_users_deleted"
    /\ ~sqlLog[4].ok
    /\ sqlLog[4].by = "main"

\* End-to-end scenario A: {auth0UserId: null, userPrimaryEmail: "a@b.com", password: "x"}.
ScenarioA ==
    [f \in {"auth0UserId", "userPrimaryEmail", "password"} |->
        IF f = "auth0UserId" THEN "null" ELSE "text"]

\* C12: create_internal_user accepts the input of scenario A, and an
\* invocation on it that succeeds has created the identity-provider
\* credential and then inserted the internal_users row and the users row.
C12_ScenarioACreatesCredentialAndRows ==
    (handler = "create_internal_user" /\ event = ScenarioA) =>
        /\ ~TaskRaised(CheckTask)
        /\ pc = "done" =>
              /\ "create_user_in_auth0" \in io
              /\ {"insert_internal_users", "insert_users"} \subseteq ExecutedStatements


(***************************************************************************)
(* C13.  The list reshapers (get_clients, get_internal_users) read the     *)
(* total-count column once, from the first row, return it as               *)
(* totalItemsCount, and no per-row object contains the total-count column. *)
(***************************************************************************)
C13_TotalReadOnceAndNotInRows ==
    (handler \in ListReshapers /\ pc \in {"done", "failed"} /\ aggregated_data # << >>) =>
        /\ response.status = "success"
        /\ response.body.totalItemsCount = ColumnValue(aggregated_data[1], "total_items_count")
        /\ \A i \in 1..Len(response.body.items) :
              "totalItemsCount" \notin DOMAIN response.body.items[i].top

(***************************************************************************)
(* C14.  When the list query of get_clients or get_internal_users returns  *)
(* no row, the invocation does not fail: it returns an empty list and      *)
(* pageInformation.totalItemsCount = 0.                                    *)
(***************************************************************************)
SelectReturnedNoRow ==
    /\ handler \in ListReshapers
    /\ sqlLog # << >>
    /\ sqlLog[Len(sqlLog)].stmt = ResponseStatement(handler)
    /\ sqlLog[Len(sqlLog)].ok
    /\ aggregated_data = << >>

C14_EmptyResultGivesEmptyPage ==
    /\ (SelectReturnedNoRow /\ Ended) => pc = "done"
    /\ (SelectReturnedNoRow /\ pc = "done") =>
          /\ response.status = "success"
          /\ response.body.items = << >>
          /\ response.body.totalItemsCount = 0

C14_Witness ==
    /\ SelectReturnedNoRow
    /\ handler = "get_clients"
    /\ pc = "done"
    /\ response.body = [items |-> << >>, totalItemsCount |-> 0]

(***************************************************************************)
(* C15.  For every handler that declares required fields, an input in      *)
(* which a required field is absent or null makes the invocation fail, and *)
(* no SQL statement is executed in that invocation.                        *)
(***************************************************************************)
RequiredFieldMissing ==
    /\ invocations >= 1
    /\ \E f \in required_arguments(handler) : Get(event, f) = "null"

C15_MissingRequiredFieldFails ==
    RequiredFieldMissing =>
        /\ pc # "done"
        /\ sqlLog = << >>
        /\ inflight = {}

C15_Witness ==
    /\ handler = "create_identified_user"
    /\ RequiredFieldMissing
    /\ "metadata" \notin DOMAIN event
    /\ TaskRaised(CheckTask)
    /\ pc = "failed"

(***************************************************************************)
(* C16.  For every valid input containing only declared fields, the        *)
(* normalizer produces an ArgumentMap whose key set is exactly the         *)
(* handler's declared optional keys plus its required keys, whichever      *)
(* optional fields were supplied, and every optional field that was not    *)
(* supplied maps to null.                                                  *)
(***************************************************************************)
HandlersWithOptionalFields ==
    {"create_identified_user", "create_internal_user", "requalify_client",
     "update_identified_user"}

FixedKeyHandlers == HandlersWithOptionalFields \ {"update_identified_user"}

DeclaredFields(h) ==
    IF h = "update_identified_user" THEN InputFields(h) \ {"foo"}
    ELSE {s[2] : s \in ArgumentSpec(h)}

DeclaredKeys(h) ==
    IF h = "update_identified_user" THEN {formatted_key(f) : f \in DeclaredFields(h)}
    ELSE {s[1] : s \in ArgumentSpec(h)}

KeyOfField(h, f) ==
    IF h = "update_identified_user" THEN formatted_key(f)
    ELSE (CHOOSE s \in ArgumentSpec(h) : s[2] = f)[1]

\* The normalizer has produced its ArgumentMap for an input of declared fields.
Normalized ==
    /\ handler \in HandlersWithOptionalFields
    /\ DOMAIN event \subseteq DeclaredFields(handler)
    /\ \A f \in required_arguments(handler) : Get(event, f) # "null"
    /\ "input_arguments" \in DOMAIN results_of_tasks

IsPhoneCharacter(c) == c \in Digits \cup {"+"}

PhonesNormalized ==
    /\ handler \in PhoneHandlers
    /\ queue # << >>
    /\ "input_arguments" \in DOMAIN queue[1]

C17_PhoneValuesKeepOnlyDigitsAndPlus ==
    PhonesNormalized =>
        LET args == queue[1]["input_arguments"]
        IN  /\ "userPrimaryPhoneNumber" \in DOMAIN event =>
                  args["identified_user_primary_phone_number"] =
                      SelectSeq(event["userPrimaryPhoneNumber"], IsPhoneCharacter)
            /\ "userSecondaryPhoneNumber" \in DOMAIN event =>
                  /\ Len(args["identified_user_secondary_phone_number"]) =
                         Len(event["userSecondaryPhoneNumber"])
                  /\ \A i \in 1..Len(event["userSecondaryPhoneNumber"]) :
                        args["identified_user_secondary_phone_number"][i] =
                            SelectSeq(event["userSecondaryPhoneNumber"][i], IsPhoneCharacter)

C17_Witness ==
    /\ PhonesNormalized
    /\ handler = "update_identified_user"
    /\ "userSecondaryPhoneNumber" \in DOMAIN event
    /\ event["userSecondaryPhoneNumber"] = <<<<"+", " ">>, <<"a", "7">>>>
    /\ queue[1]["input_arguments"]["identified_user_secondary_phone_number"] = <<<<"+">>, <<"7">>>>

(***************************************************************************)
(* C18.  In every single-row reshaper, each column whose name starts with  *)
(* a recognized group prefix (gender_, role_, organization_) is placed in  *)
(* that group's sub-object, under a sub-key that is the column name with   *)
(* the prefix stripped and the rest in camelCase (gender_technical_name    *)
(* becomes gender.technicalName).                                          *)
(***************************************************************************)
SingleRowReshapers == ClientReshapers \cup InternalUserReshapers

\* The group whose prefix the column name starts with, "none" without one.
PrefixGroup(key) ==
    IF startswith(key, "gender_") THEN "gender"
    ELSE IF startswith(key, "role_") THEN "role"
    ELSE IF startswith(key, "organization_") THEN "organization"
    ELSE "none"

\* The column name without its group prefix, in camelCase.
StrippedCamelCase(key) ==
    CASE key \in {"gender_id", "role_id", "organization_id"} -> "id"
      [] key \in {"gender_technical_name", "role_technical_name"} -> "technicalName"
      [] key = "organization_name" -> "name"

\* A single-row reshaper has returned the entity of the row it was given.
RowReshaped ==
    /\ handler \in SingleRowReshapers
    /\ pc = "done"
    /\ aggregated_data # << >>

\* The claim as stated: the sub-key has no prefix.
C18_GroupedUnderStrippedKey ==
    RowReshaped =>
        \A i \in 1..Len(aggregated_data[1]) :
            LET key == aggregated_data[1][i][1]
                g == PrefixGroup(key)
            IN  g \in Groups(handler) =>
                    /\ StrippedCamelCase(key) \in DOMAIN response.body.groups[g]
                    /\ response.body.groups[g][StrippedCamelCase(key)] = aggregated_data[1][i][2]

\* Amended: the sub-key is the whole column name in camelCase, prefix kept
\* (gender_technical_name becomes gender.genderTechnicalName).
C18_GroupedUnderCamelCaseOfColumn ==
    RowReshaped =>
        \A i \in 1..Len(aggregated_data[1]) :
            LET key == aggregated_data[1][i][1]
                g == PrefixGroup(key)
            IN  g \in Groups(handler) =>
                    /\ camel_case(key) \in DOMAIN response.body.groups[g]
                    /\ response.body.groups[g][camel_case(key)] = aggregated_data[1][i][2]
                    /\ camel_case(key) \notin DOMAIN response.body.top
                    /\ \A o \in Groups(handler) \ {g} :
                          camel_case(key) \notin DOMAIN response.body.groups[o]

C18_Witness ==
    /\ RowReshaped
    /\ handler = "get_internal_user"
    /\ ColumnValue(aggregated_data[1], "role_technical_name") = "null"
    /\ response.body.groups["gender"] = [genderId |-> "value", genderTechnicalName |-> "value"]
    /\ response.body.groups["role"] = [roleId |-> "null", roleTechnicalName |-> "null"]

(***************************************************************************)
(* C19.  In every internal-user reshaper (create_internal_user,            *)
(* update_internal_user, get_internal_user, get_internal_users) a column   *)
(* whose name does not start with a recognized group prefix (such as       *)
(* parent_organization_id, root_organization_name, tree_organization_id)   *)
(* is placed on the top-level object and in no sub-object; hence the four  *)
(* handlers reshape the same row to the same entity.                       *)
(***************************************************************************)
AllInternalUserReshapers == InternalUserReshapers \cup {"get_internal_users"}

\* The entity built from the first row of the result.
FirstEntity == IF handler \in ListReshapers THEN response.body.items[1] ELSE response.body

C19_UnprefixedColumnsAreTopLevel ==
    (handler \in AllInternalUserReshapers /\ pc = "done" /\ aggregated_data # << >>) =>
        /\ \A i \in 1..Len(aggregated_data[1]) :
              LET key == aggregated_data[1][i][1]
              IN  PrefixGroup(key) = "none" =>
                      /\ camel_case(key) \in DOMAIN FirstEntity.top
                      /\ \A g \in Groups(handler) :
                            camel_case(key) \notin DOMAIN FirstEntity.groups[g]
        /\ \A h \in AllInternalUserReshapers :
              ReshapeRow(h, aggregated_data[1]) = FirstEntity

(***************************************************************************)
(* C20.  For every accepted input of get_clients and get_internal_users    *)
(* the offset bound into the list query is (currentPageNumber - 1) *       *)
(* itemsCountPerPage and the limit is itemsCountPerPage: page 2 with 10    *)
(* items per page gives offset 10, page 1 gives offset 0.                  *)
(***************************************************************************)
ListQueryCalled ==
    /\ handler \in ListReshapers
    /\ call["main"].fn \in {"get_clients_data", "get_internal_users_data"}

C20_OffsetAndLimit ==
    ListQueryCalled =>
        /\ call["main"].args["offset"] =
               (IntOf(event["currentPageNumber"]) - 1) * IntOf(event["itemsCountPerPage"])
        /\ call["main"].args["limit"] = IntOf(event["itemsCountPerPage"])
        /\ event["currentPageNumber"] = "1" => call["main"].args["offset"] = 0
        /\ (event["currentPageNumber"] = "2" /\ event["itemsCountPerPage"] = "10") =>
               call["main"].args["offset"] = 10

C20_Witness ==
    /\ ListQueryCalled
    /\ handler = "get_clients"
    /\ event["currentPageNumber"] = "2"
    /\ event["itemsCountPerPage"] = "10"
    /\ call["main"].args = [root_organization_id |-> "uuid", limit |-> 10, offset |-> 10]

(***************************************************************************)
(* C21.  When the read of a single-entity handler finds no matching row,   *)
(* the reshaper returns an empty object: not null, not an error, and       *)
(* without any gender / role / organization sub-object key.                *)
(***************************************************************************)
NoRowReshaped ==
    /\ handler \in SingleRowReshapers
    /\ aggregated_data = << >>
    /\ pc \in {"done", "failed"}

C21_NoRowGivesEmptyObject ==
    NoRowReshaped =>
        /\ pc = "done"
        /\ response.status = "success"
        /\ DOMAIN response.body.top = {}
        /\ DOMAIN response.body.groups = {}

C21_Witness ==
    /\ NoRowReshaped
    /\ handler = "get_internal_user"
    /\ response.status = "success"
    /\ DOMAIN response.body.top = {}
    /\ DOMAIN response.body.groups = {}

(***************************************************************************)
(* C22.  Round trip of the reshaper: for every reshaped entity E,          *)
(* flattening E back to a row (each group's prefix re-attached to its      *)
(* sub-keys) and reshaping that row again assigns every column to the      *)
(* group it had in E: grouping is idempotent.                              *)
(***************************************************************************)
ReshapedAgain ==
    /\ handler \in SingleRowReshapers
    /\ "entity" \in DOMAIN results_of_tasks
    /\ pc \in {"done", "failed"}

C22_RoundTripKeepsGroups ==
    ReshapedAgain =>
        LET E == results_of_tasks["entity"]
        IN  /\ pc = "done"
            /\ DOMAIN response.body.groups = DOMAIN E.groups
            /\ DOMAIN response.body.top = {camel_case(FlatColumn("top", k)) : k \in DOMAIN E.top}
            /\ \A k \in DOMAIN E.top :
                  response.body.top[camel_case(FlatColumn("top", k))] = E.top[k]
            /\ \A g \in DOMAIN E.groups :
                  /\ DOMAIN response.body.groups[g] =
                         {camel_case(FlatColumn(g, k)) : k \in DOMAIN E.groups[g]}
                  /\ \A k \in DOMAIN E.groups[g] :
                        response.body.groups[g][camel_case(FlatColumn(g, k))] = E.groups[g][k]

C22_Witness ==
    /\ ReshapedAgain
    /\ handler = "create_internal_user"
    /\ pc = "done"
    /\ "organizationParentOrganizationId" \in DOMAIN response.body.groups["organization"]
    /\ "parentOrganizationId" \in DOMAIN results_of_tasks["entity"].groups["organization"]

(***************************************************************************)
(* C23.  The create handlers: parent row, then users row, then the read.   *)
(***************************************************************************)
\* The insert of the create handler h that returns the parent row's id.
ParentInsert(h) ==
    IF h = "create_identified_user" THEN "insert_identified_users"
    ELSE IF h = "create_unidentified_user" THEN "insert_unidentified_users"
    ELSE "insert_internal_users"

ParentTableOf(h) ==
    IF h = "create_identified_user" THEN "identified_users"
    ELSE IF h = "create_unidentified_user" THEN "unidentified_users"
    ELSE "internal_users"

\* C23: in create_identified_user, create_unidentified_user and
\* create_internal_user the insert into users is executed only after the
\* insert of the parent row has succeeded, its parameter (and the reference
\* of the row it inserts) is exactly the id that insert returned, and the
\* one read that follows is issued only after both inserts succeeded, with
\* the user_id the insert into users returned as its parameter.
C23_UsersRowReferencesParentAndReadFollows ==
    handler \in CreateFunctions =>
        \A i \in 1..Len(sqlLog) :
            /\ sqlLog[i].stmt = "insert_users" =>
                  /\ i = 2
                  /\ sqlLog[1].stmt = ParentInsert(handler)
                  /\ sqlLog[1].ok
                  /\ sqlLog[1].returned \in DOMAIN db[ParentTableOf(handler)]
                  /\ sqlLog[2].params =
                         [k \in {ReturnedKey(ParentInsert(handler))} |-> sqlLog[1].returned]
                  /\ sqlLog[2].ok =>
                         /\ sqlLog[2].returned \in DOMAIN db.users
                         /\ db.users[sqlLog[2].returned][ReturnedKey(ParentInsert(handler))]
                                = sqlLog[1].returned
            /\ sqlLog[i].stmt = ResponseStatement(handler) =>
                  /\ i = 3
                  /\ sqlLog[1].ok /\ sqlLog[2].ok
                  /\ sqlLog[2].stmt = "insert_users"
                  /\ sqlLog[3].params = [k \in {"user_id"} |-> sqlLog[2].returned]

\* The second invocation of create_identified_user read its new user back:
\* the row users_2 references identified_users_2.
C23_Witness ==
    /\ handler = "create_identified_user"
    /\ invocations = 2
    /\ Len(sqlLog) = 3
    /\ sqlLog[3].ok
    /\ sqlLog[3].params = [k \in {"user_id"} |-> "users_2"]
    /\ "users_2" \in DOMAIN db.users
    /\ db.users["users_2"].identified_user_id = "identified_users_2"

(***************************************************************************)
(* C24.  Phone numbers in requalify_client and create_internal_user.       *)
(***************************************************************************)
UncleanedPhoneHandlers == {"requalify_client", "create_internal_user"}

\* The key of the ArgumentMap the handler writes the phone field f under.
PhoneKey(h, f) ==
    (IF h = "create_internal_user" THEN "internal_user_" ELSE "identified_user_")
    \o (IF f = "userPrimaryPhoneNumber" THEN "primary_phone_number"
        ELSE "secondary_phone_number")

\* C24: in requalify_client and create_internal_user the value of
\* userPrimaryPhoneNumber and every element of userSecondaryPhoneNumber are
\* written to the ArgumentMap with every character outside [0-9+] removed.
C24_PhonesStrippedInEveryHandler ==
    (/\ handler \in UncleanedPhoneHandlers
     /\ queue # << >>
     /\ "input_arguments" \in DOMAIN queue[1]) =>
        LET args == queue[1]["input_arguments"]
            primary == PhoneKey(handler, "userPrimaryPhoneNumber")
            secondary == PhoneKey(handler, "userSecondaryPhoneNumber")
        IN  /\ "userPrimaryPhoneNumber" \in DOMAIN event =>
                  args[primary] = SelectSeq(event["userPrimaryPhoneNumber"], IsPhoneCharacter)
            /\ "userSecondaryPhoneNumber" \in DOMAIN event =>
                  /\ Len(args[secondary]) = Len(event["userSecondaryPhoneNumber"])
                  /\ \A i \in 1..Len(event["userSecondaryPhoneNumber"]) :
                        args[secondary][i] =
                            SelectSeq(event["userSecondaryPhoneNumber"][i], IsPhoneCharacter)

(***************************************************************************)
(* C25.  requalify_client on an unidentified client.                       *)
(***************************************************************************)
\* requalify_client returned, and the users row it updated referenced an
\* unidentified_users row (the id the UPDATE returned is not null).
RequalifiedUnidentified ==
    /\ handler = "requalify_client"
    /\ pc = "done"
    /\ Len(sqlLog) >= 2
    /\ sqlLog[2].returned \notin {"null", "None"}

\* C25: after a successful requalify_client for an existing user U whose
\* users row referenced the unidentified_users row N, U's row references the
\* identified_users row this invocation inserted and no unidentified row, N
\* has entry_deleted_date_time set, the writes were executed in the order
\* insert identified_users, update users, update unidentified_users, and
\* the client returned has userType 'identified_user'.
C25_RequalifiedClientIsIdentified ==
    RequalifiedUnidentified =>
        LET U == input_arguments["user_id"]
            N == sqlLog[2].returned
        IN  /\ [i \in 1..Len(sqlLog) |-> sqlLog[i].stmt] =
                   <<"insert_identified_users", "update_users_type",
                     "update_unidentified_users_deleted", "select_client">>
            /\ \A i \in 1..Len(sqlLog) : sqlLog[i].ok
            /\ sqlLog[1].returned \in DOMAIN db.identified_users
            /\ db.users[U].identified_user_id = sqlLog[1].returned
            /\ db.users[U].unidentified_user_id = "null"
            /\ N \in DOMAIN db.unidentified_users
            /\ db.unidentified_users[N].entry_deleted_date_time = "now"
            /\ response.status = "success"
            /\ response.body.top["userType"] = "identified_user"
            /\ response.body.top["userId"] = U

C25_Witness ==
    /\ RequalifiedUnidentified
    /\ invocations = 1
    /\ sqlLog[2].returned = ParentId("uuid")
    /\ db.users["uuid"].identified_user_id = "identified_users_1"
    /\ db.unidentified_users[ParentId("uuid")].entry_deleted_date_time = "now"
    /\ response.body.top["userType"] = "identified_user"

(***************************************************************************)
(* C30.  The delete handlers and the users rows of the other kind.         *)
(***************************************************************************)
\* The users rows handler h must leave alone: the clients for
\* delete_internal_users, the internal users for delete_clients.
ForeignUsers(h, d) ==
    {u \in DOMAIN d.users :
        IF h = "delete_internal_users" THEN d.users[u].internal_user_id = "null"
        ELSE d.users[u].internal_user_id # "null"}

\* C30: delete_internal_users sets entry_deleted_date_time only on users
\* rows whose internal_user_id is not null, so the row of a client whose id
\* is in usersIds stays as it was; delete_clients likewise leaves the users
\* rows of internal users as they were.
C30_DeleteLeavesOtherKindUnchanged ==
    [][(handler \in DeleteHandlers) =>
           (\A u \in ForeignUsers(handler, db) : db'.users[u] = db.users[u])]_vars

(***************************************************************************)
(* C28.  The optional fields of create_internal_user.                      *)
(***************************************************************************)
\* An input of create_internal_user with userPrimaryEmail, password and
\* some of the other fields its normalizer maps, none of them null.
InternalUserInputWithOptionalFields ==
    /\ handler = "create_internal_user"
    /\ invocations >= 1
    /\ required_arguments(handler) \subseteq DOMAIN event
    /\ DOMAIN event \subseteq DeclaredFields(handler)
    /\ \A f \in DOMAIN event : event[f] # "null"

\* C28: create_internal_user accepts an input that carries, besides
\* userPrimaryEmail and password, optional fields its normalizer maps, and
\* each supplied value appears under the mapped key of the ArgumentMap.
C28_OptionalFieldsAccepted ==
    InternalUserInputWithOptionalFields =>
        /\ ~TaskRaised(CheckTask)
        /\ "input_arguments" \in DOMAIN results_of_tasks =>
              \A s \in ArgumentSpec(handler) :
                  s[2] \in DOMAIN event =>
                      results_of_tasks["input_arguments"][s[1]] =
                          IF s[3] = "json_get" THEN json_dumps(event[s[2]]) ELSE event[s[2]]

(***************************************************************************)
(* C29.  The sign of the offset and limit of the list queries.             *)
(***************************************************************************)
\* C29: for every input that the validation of get_clients and
\* get_internal_users accepts, the offset and the limit bound into the
\* list query are not negative: a currentPageNumber below 1 never reaches
\* the SQL statement.
C29_OffsetAndLimitNotNegative ==
    ListQueryCalled =>
        /\ call["main"].args["offset"] >= 0
        /\ call["main"].args["limit"] >= 0
        /\ IntOf(event["currentPageNumber"]) >= 1

(***************************************************************************)
(* C26.  delete_internal_users followed by restore_deleted_internal_users. *)
(***************************************************************************)
\* No users row that usersIds names, and no internal_users row such a row
\* references, is marked as deleted.
NoListedRowDeleted(d) ==
    \A u \in ListedUsers("list") \cap DOMAIN d.users :
        /\ d.users[u].entry_deleted_date_time = "null"
        /\ d.users[u].internal_user_id # "null" =>
               d.internal_users[d.users[u].internal_user_id].entry_deleted_date_time = "null"

\* restore_deleted_internal_users returns, the last of the two handlers to
\* have returned before it being delete_internal_users.
RestoreReturnsAfterDelete ==
    /\ handler = "restore_deleted_internal_users"
    /\ lastSucceeded = "delete_internal_users"
    /\ pc # "done"
    /\ pc' = "done"

\* C26: a successful delete_internal_users(L) followed by a successful
\* restore_deleted_internal_users(L) leaves entry_deleted_date_time null on
\* every users row of L and on every internal_users row such a row
\* references.
C26_RestoreUndoesDelete ==
    [][(RestoreReturnsAfterDelete) => (NoListedRowDeleted(db'))]_vars

(***************************************************************************)
(* C27.  A deleted internal user and the list of internal users.           *)
(***************************************************************************)
\* The user ids of the response of get_internal_users.
ListedInResponse ==
    {response.body.items[i].top["userId"] : i \in 1..Len(response.body.items)}

\* C27: after delete_internal_users succeeded for user U (user_1) and until
\* restore_deleted_internal_users succeeds for U, no response of
\* get_internal_users lists U; once the restore has succeeded, U is listed
\* again.
C27_DeletedUserListedOnlyAfterRestore ==
    (handler = "get_internal_users" /\ pc = "done") =>
        /\ lastSucceeded = "delete_internal_users" => "user_1" \notin ListedInResponse
        /\ lastSucceeded = "restore_deleted_internal_users" => "user_1" \in ListedInResponse

====
